---- MODULE Spec2Model ----
(***************************************************************************)
(* Model of the Homey assistant agent's configuration code.                *)
(*                                                                         *)
(* Part 1: the MCP tool-server configuration loader                        *)
(*   src/homey_assistant/config/mcp_config.py                              *)
(* Part 2: the provider configuration loader and factory                   *)
(*   src/homey_assistant/config/providers.py                               *)
(* Part 3: the session manager and the worker's prewarm and entrypoint     *)
(*   src/homey_assistant/agent/session.py, src/main.py                     *)
(* Part 4: the assistant's instructions                                    *)
(*   src/homey_assistant/agent/assistant.py                                *)
(* Part 5: correlation ids and the logging configuration                   *)
(*   src/homey_assistant/utils/logging.py                                  *)
(*                                                                         *)
(* Python values are modelled as tagged records (see "JSON values"), the   *)
(* file system as a function from paths to file states, and every method   *)
(* of MCPConfigLoader as an operator that returns the outcome of the call: *)
(* whether it returned or raised, the value or the exception, the log      *)
(* records it emitted and the vendor constructors it invoked.              *)
(***************************************************************************)
EXTENDS Naturals, Sequences, FiniteSets, TLC

VARIABLES
    fs,      \* the file system: path -> file state
    loader,  \* the MCPConfigLoader instance: [config_path]
    call,    \* the most recent call: [op, name, cfg]
    ret,     \* its outcome: [status, value, exc]
    log,     \* the log records it emitted, in order
    ctor,    \* the vendor constructor invocations it made, in order
    env,     \* the process environment: variable name -> value, JNull when unset
    proc,    \* the worker process: its userdata and what prewarm did
    job,     \* the entrypoint invocation in progress
    heap,    \* the list objects of the process: address -> elements
    managers,\* the SessionManager instances built so far, in order
    context, \* the execution contexts: context -> value of the correlation_id variable
    loggers  \* the logging module's loggers: name -> [level, handlers, propagate]

vars == <<fs, loader, call, ret, log, ctor, env, proc, job, heap, managers, context, loggers>>
\* The objects and the logging state of the process.
utilVars == <<heap, managers, context, loggers>>
\* The state outside the configuration loader.
agentVars == <<env, proc, job, utilVars>>

(***************************************************************************)
(* Bounds of the model.                                                    *)
(***************************************************************************)
MaxEntries == 3   \* longest `servers` mapping of a multi-entry document
MaxArgs == 2      \* longest `args` list of an entry
MaxServers == 2   \* longest mcp_servers list handed to a session
MaxJobs == 2      \* entrypoint invocations of one worker process
MaxObjects == 3   \* list objects allocated besides the module constant
MaxContexts == 2  \* execution contexts running concurrently
MaxWords == 3     \* longest custom instruction text, in elements
MaxLanguages == 2 \* longest stt_languages list
MaxHandlers == 3  \* most handlers the conversation logger is let to collect

(***************************************************************************)
(* JSON values, as json.load builds them and as the code inspects them.    *)
(* Every value is a record [t, s, items]: t the Python type, s the scalar  *)
(* text, items the elements of a list or the members [k, val] of a dict    *)
(* in insertion order.                                                     *)
(***************************************************************************)
JNull == [t |-> "null", s |-> "", items |-> <<>>]
JBool(b) == [t |-> "bool", s |-> IF b THEN "true" ELSE "false", items |-> <<>>]
JNum(digits) == [t |-> "num", s |-> digits, items |-> <<>>]
JStr(text) == [t |-> "str", s |-> text, items |-> <<>>]
JList(elems) == [t |-> "list", s |-> "", items |-> elems]
JObj(members) == [t |-> "obj", s |-> "", items |-> members]
Member(key, value) == [k |-> key, val |-> value]

\* A field left out of an object when the object is written down.
Absent == [t |-> "absent", s |-> "", items |-> <<>>]

\* isinstance(x, str / list / dict)
IsStr(x) == x.t = "str"
IsList(x) == x.t = "list"
IsDict(x) == x.t = "obj"

\* Python truthiness (`if not x`): None, False, 0, "", [] and {} are falsy.
Truthy(x) ==
    CASE x.t = "null" -> FALSE
      [] x.t = "bool" -> x.s = "true"
      [] x.t = "num" -> x.s # "0"
      [] x.t = "str" -> x.s # ""
      [] OTHER -> x.items # <<>>

\* type(x).__name__
TypeName(x) ==
    CASE x.t = "null" -> "NoneType"
      [] x.t = "bool" -> "bool"
      [] x.t = "num" -> "int"
      [] x.t = "str" -> "str"
      [] x.t = "list" -> "list"
      [] OTHER -> "dict"

\* str(x) of a scalar, as an f-string interpolates it (containers print as
\* their repr, which the model leaves abstract).
PyStr(x) ==
    CASE x.t = "null" -> "None"
      [] x.t = "bool" -> (IF x.s = "true" THEN "True" ELSE "False")
      [] x.t = "list" -> "[...]"
      [] x.t = "obj" -> "{...}"
      [] OTHER -> x.s

\* str(n) for a natural number (the index in an f-string).
Digit == <<"0", "1", "2", "3", "4", "5", "6", "7", "8", "9">>
RECURSIVE DecStr(_)
DecStr(n) == IF n < 10 THEN Digit[n + 1] ELSE DecStr(n \div 10) \o Digit[(n % 10) + 1]

\* The keys of a member sequence, in order.
Keys(members) == [i \in 1..Len(members) |-> members[i].k]

\* dict.get(key, default): the value stored under key, else default.
DictGet(d, key, default) ==
    IF \E i \in 1..Len(d.items) : d.items[i].k = key
    THEN d.items[CHOOSE i \in 1..Len(d.items) : d.items[i].k = key].val
    ELSE default

(***************************************************************************)
(* json.load: the Python value of a parsed document.  A JSON object may    *)
(* repeat a key; the dict keeps one member per key, at the position of the *)
(* key's first occurrence and with the value of its last occurrence.       *)
(***************************************************************************)
RECURSIVE PyValue(_)
PyDict(members) ==
    LET n == Len(members)
        first(i) == \A j \in 1..(i - 1) : members[j].k # members[i].k
        last(key) == CHOOSE i \in 1..n :
                        /\ members[i].k = key
                        /\ \A j \in (i + 1)..n : members[j].k # key
        kept == SelectSeq([i \in 1..n |-> i], first)
    IN [i \in 1..Len(kept) |->
            Member(members[kept[i]].k, PyValue(members[last(members[kept[i]].k)].val))]
PyValue(doc) ==
    CASE doc.t = "list" -> JList([i \in 1..Len(doc.items) |-> PyValue(doc.items[i])])
      [] doc.t = "obj" -> JObj(PyDict(doc.items))
      [] OTHER -> doc

(***************************************************************************)
(* Exceptions, log records, vendor objects, call outcomes.                 *)
(* A message is the sequence of the pieces its f-string concatenates.      *)
(***************************************************************************)
NoExc == [type |-> "", msg |-> <<>>]
MCPConfigurationError(message) == [type |-> "MCPConfigurationError", msg |-> message]
AttributeError(message) == [type |-> "AttributeError", msg |-> message]
UnicodeDecodeError(message) == [type |-> "UnicodeDecodeError", msg |-> message]

LogRecord(lvl, message) == [level |-> lvl, msg |-> message]

\* mcp.MCPServerHTTP(url) and mcp.MCPServerStdio(command, args): the vendor
\* objects keep the arguments they were constructed with.
MCPServerHTTP(url) == [kind |-> "http", url |-> url, command |-> JNull, args |-> JNull]
MCPServerStdio(command, args) == [kind |-> "stdio", url |-> JNull, command |-> command, args |-> args]
CtorCall(function, arguments) == [fn |-> function, args |-> arguments]

Returned(v, logs, ctors) == [status |-> "return", value |-> v, exc |-> NoExc, log |-> logs, ctor |-> ctors]
Raised(e, logs, ctors) == [status |-> "raise", value |-> <<>>, exc |-> e, log |-> logs, ctor |-> ctors]

(***************************************************************************)
(* MCPConfigLoader._create_http_server                                     *)
(***************************************************************************)
\* Mutant: the isinstance(url, str) check is missing.
_create_http_server_unchecked(server_name, server_config) ==
    IF ~IsDict(server_config)
    THEN Raised(AttributeError(<<"'", TypeName(server_config), "' object has no attribute 'get'">>), <<>>, <<>>)
    ELSE IF ~Truthy(DictGet(server_config, "url", JNull))
    THEN Raised(MCPConfigurationError(
            <<"HTTP server '", server_name, "' missing required '", "url", "' field">>), <<>>, <<>>)
    ELSE Returned(<<MCPServerHTTP(DictGet(server_config, "url", JNull))>>, <<>>,
            <<CtorCall("MCPServerHTTP", <<DictGet(server_config, "url", JNull)>>)>>)

_create_http_server(server_name, server_config) ==
    IF ~IsDict(server_config)
    THEN Raised(AttributeError(<<"'", TypeName(server_config), "' object has no attribute 'get'">>), <<>>, <<>>)
    ELSE
    LET url == DictGet(server_config, "url", JNull) IN
    IF ~Truthy(url)
    THEN Raised(MCPConfigurationError(
            <<"HTTP server '", server_name, "' missing required '", "url", "' field">>), <<>>, <<>>)
    ELSE IF ~IsStr(url)
    THEN Raised(MCPConfigurationError(
            <<"HTTP server '", server_name, "' '", "url", "' must be a string">>), <<>>, <<>>)
    ELSE Returned(<<MCPServerHTTP(url)>>,
            <<LogRecord("debug", <<"Creating HTTP MCP server '", server_name, "' with URL: ", url.s>>)>>,
            <<CtorCall("MCPServerHTTP", <<url>>)>>)

(***************************************************************************)
(* MCPConfigLoader._create_stdio_server                                    *)
(***************************************************************************)
\* for i, arg in enumerate(args): the first index (from 0) whose element is
\* not a string, or Len(args) when every element is one.
\* Mutant: enumerate(args, 1) - the index counts from 1.
RECURSIVE FirstNonStrFromOne(_, _)
FirstNonStrFromOne(elems, i) ==
    IF i >= Len(elems) THEN Len(elems)
    ELSE IF ~IsStr(elems[i + 1]) THEN i + 1
    ELSE FirstNonStrFromOne(elems, i + 1)

\* Mutant: the elements are not validated.
NoElementCheck(elems, i) == Len(elems)

RECURSIVE FirstNonStr(_, _)
FirstNonStr(elems, i) ==
    IF i >= Len(elems) THEN Len(elems)
    ELSE IF ~IsStr(elems[i + 1]) THEN i
    ELSE FirstNonStr(elems, i + 1)

\* Mutant: mcp.MCPServerStdio(command) - the arguments are not passed on.
_create_stdio_server_no_args(server_name, server_config) ==
    IF ~IsDict(server_config)
    THEN Raised(AttributeError(<<"'", TypeName(server_config), "' object has no attribute 'get'">>), <<>>, <<>>)
    ELSE
    LET command == DictGet(server_config, "command", JNull)
        args == DictGet(server_config, "args", JList(<<>>))
        bad == FirstNonStr(args.items, 0)
    IN
    IF ~Truthy(command)
    THEN Raised(MCPConfigurationError(
            <<"Stdio server '", server_name, "' missing required '", "command", "' field">>), <<>>, <<>>)
    ELSE IF ~IsStr(command)
    THEN Raised(MCPConfigurationError(
            <<"Stdio server '", server_name, "' '", "command", "' must be a string">>), <<>>, <<>>)
    ELSE IF ~IsList(args)
    THEN Raised(MCPConfigurationError(
            <<"Stdio server '", server_name, "' '", "args", "' must be a list">>), <<>>, <<>>)
    ELSE IF bad < Len(args.items)
    THEN Raised(MCPConfigurationError(
            <<"Stdio server '", server_name, "' ", "args", "[", DecStr(bad), "] must be a string, got ",
              TypeName(args.items[bad + 1])>>), <<>>, <<>>)
    ELSE Returned(<<MCPServerStdio(command, JList(<<>>))>>, <<>>,
            <<CtorCall("MCPServerStdio", <<command, JList(<<>>)>>)>>)

_create_stdio_server(server_name, server_config) ==
    IF ~IsDict(server_config)
    THEN Raised(AttributeError(<<"'", TypeName(server_config), "' object has no attribute 'get'">>), <<>>, <<>>)
    ELSE
    LET command == DictGet(server_config, "command", JNull)
        args == DictGet(server_config, "args", JList(<<>>))
        bad == FirstNonStr(args.items, 0)
    IN
    IF ~Truthy(command)
    THEN Raised(MCPConfigurationError(
            <<"Stdio server '", server_name, "' missing required '", "command", "' field">>), <<>>, <<>>)
    ELSE IF ~IsStr(command)
    THEN Raised(MCPConfigurationError(
            <<"Stdio server '", server_name, "' '", "command", "' must be a string">>), <<>>, <<>>)
    ELSE IF ~IsList(args)
    THEN Raised(MCPConfigurationError(
            <<"Stdio server '", server_name, "' '", "args", "' must be a list">>), <<>>, <<>>)
    ELSE IF bad < Len(args.items)
    THEN Raised(MCPConfigurationError(
            <<"Stdio server '", server_name, "' ", "args", "[", DecStr(bad), "] must be a string, got ",
              TypeName(args.items[bad + 1])>>), <<>>, <<>>)
    ELSE Returned(<<MCPServerStdio(command, args)>>,
            <<LogRecord("debug", <<"Creating stdio MCP server '", server_name, "' with command: ",
                                   command.s, ", args: ">> \o [i \in 1..Len(args.items) |-> args.items[i].s])>>,
            <<CtorCall("MCPServerStdio", <<command, args>>)>>)

(***************************************************************************)
(* MCPConfigLoader._create_server                                          *)
(***************************************************************************)
\* Mutant: a type that is not "stdio" is taken to be "http".
_create_server_default_http(server_name, server_config) ==
    IF ~IsDict(server_config)
    THEN Raised(MCPConfigurationError(
            <<"Server '", server_name, "' configuration must be an object">>), <<>>, <<>>)
    ELSE IF ~Truthy(DictGet(server_config, "type", JNull))
    THEN Raised(MCPConfigurationError(
            <<"Server '", server_name, "' missing required '", "type", "' field">>), <<>>, <<>>)
    ELSE IF DictGet(server_config, "type", JNull) = JStr("stdio")
    THEN _create_stdio_server(server_name, server_config)
    ELSE _create_http_server(server_name, server_config)

_create_server(server_name, server_config) ==
    IF ~IsDict(server_config)
    THEN Raised(MCPConfigurationError(
            <<"Server '", server_name, "' configuration must be an object">>), <<>>, <<>>)
    ELSE
    LET server_type == DictGet(server_config, "type", JNull) IN
    IF ~Truthy(server_type)
    THEN Raised(MCPConfigurationError(
            <<"Server '", server_name, "' missing required '", "type", "' field">>), <<>>, <<>>)
    ELSE IF server_type = JStr("http")
    THEN _create_http_server(server_name, server_config)
    ELSE IF server_type = JStr("stdio")
    THEN _create_stdio_server(server_name, server_config)
    ELSE Raised(MCPConfigurationError(
            <<"Server '", server_name, "' has unsupported type '", PyStr(server_type),
              "'. Supported types: 'http', 'stdio'">>), <<>>, <<>>)

(***************************************************************************)
(* The file system and MCPConfigLoader.__init__                            *)
(***************************************************************************)
DEFAULT_MCP_CONFIG_PATH == "mcp.json"
CustomPath == "custom.json"
Paths == {DEFAULT_MCP_CONFIG_PATH, CustomPath}

\* A file state: st says whether the path exists and can be opened, body what
\* the bytes are (JSON text, text that is not JSON, bytes that are not UTF-8),
\* doc the syntax tree of the JSON text.
AbsentFile == [st |-> "absent", body |-> "", doc |-> JNull]
UnreadableFile == [st |-> "unreadable", body |-> "", doc |-> JNull]
GarbageFile == [st |-> "file", body |-> "garbage", doc |-> JNull]
UndecodableFile == [st |-> "file", body |-> "undecodable", doc |-> JNull]
JsonFile(document) == [st |-> "file", body |-> "json", doc |-> document]

\* os.path.exists(path)
Exists(file) == file.st # "absent"

\* MCPConfigLoader(config_path): `config_path or DEFAULT_MCP_CONFIG_PATH`
MCPConfigLoader(config_path) ==
    [config_path |-> IF Truthy(config_path) THEN config_path.s ELSE DEFAULT_MCP_CONFIG_PATH]

(***************************************************************************)
(* MCPConfigLoader.load_servers                                            *)
(***************************************************************************)
\* The loop over servers_config.items(): one _create_server call per member,
\* in the dict's order; a server that was built is appended (`if server:` - a
\* vendor object is truthy), an exception of any type is logged and the loop
\* continues.
\* Mutant: the first entry that fails ends the loop (break, not continue).
RECURSIVE load_loop_break(_, _, _)
load_loop_break(members, i, acc) ==
    IF i > Len(members) THEN acc
    ELSE LET made == _create_server(members[i].k, members[i].val) IN
         IF made.status = "return"
         THEN load_loop_break(members, i + 1,
                [value |-> acc.value \o made.value,
                 log |-> acc.log \o made.log,
                 ctor |-> acc.ctor \o made.ctor])
         ELSE [value |-> acc.value, log |-> acc.log \o made.log, ctor |-> acc.ctor \o made.ctor]

\* Mutant: servers.insert(0, server) in place of servers.append(server).
RECURSIVE load_loop_prepend(_, _, _)
load_loop_prepend(members, i, acc) ==
    IF i > Len(members) THEN acc
    ELSE LET made == _create_server(members[i].k, members[i].val) IN
         load_loop_prepend(members, i + 1,
            [value |-> made.value \o acc.value,
             log |-> acc.log \o made.log,
             ctor |-> acc.ctor \o made.ctor])

\* Mutant: a failed entry is reported with logger.warning.
RECURSIVE load_loop_warn(_, _, _)
load_loop_warn(members, i, acc) ==
    IF i > Len(members) THEN acc
    ELSE LET made == _create_server(members[i].k, members[i].val) IN
         IF made.status = "return"
         THEN load_loop_warn(members, i + 1,
                [value |-> acc.value \o made.value,
                 log |-> acc.log \o made.log,
                 ctor |-> acc.ctor \o made.ctor])
         ELSE load_loop_warn(members, i + 1,
                [value |-> acc.value,
                 log |-> acc.log \o made.log \o
                     <<LogRecord("warning", <<"Failed to create MCP server '", members[i].k, "': ">>
                                            \o made.exc.msg)>>,
                 ctor |-> acc.ctor \o made.ctor])

RECURSIVE load_loop(_, _, _)
load_loop(members, i, acc) ==
    IF i > Len(members) THEN acc
    ELSE LET made == _create_server(members[i].k, members[i].val) IN
         IF made.status = "return"
         THEN load_loop(members, i + 1,
                [value |-> acc.value \o made.value,
                 log |-> acc.log \o made.log,
                 ctor |-> acc.ctor \o made.ctor])
         ELSE load_loop(members, i + 1,
                [value |-> acc.value,
                 log |-> acc.log \o made.log \o
                     <<LogRecord("error", <<"Failed to create MCP server '", members[i].k, "': ">>
                                          \o made.exc.msg)>>,
                 ctor |-> acc.ctor \o made.ctor])

\* Lines 62-72: open() and json.load().  `file` is the state of config_path
\* when os.path.exists looked at it; `vanishes` says the file is removed
\* between that check and open().  Returns the parsed value, or raises.
read_config(config_path, file, vanishes) ==
    IF vanishes \/ file.st = "unreadable"
    THEN Raised(MCPConfigurationError(
            <<"Error reading MCP configuration file ", config_path, ": ", "<os error>">>), <<>>, <<>>)
    ELSE IF file.body = "undecodable"
    THEN Raised(UnicodeDecodeError(<<"'utf-8' codec can't decode byte">>), <<>>, <<>>)
    ELSE IF file.body = "garbage"
    THEN Raised(MCPConfigurationError(
            <<"Invalid JSON", " in MCP configuration file ", config_path, ": ", "<decoder message>">>),
            <<>>, <<>>)
    ELSE Returned(<<PyValue(file.doc)>>, <<>>, <<>>)

\* Mutant: a `servers` that is not an object counts as no servers.
servers_of_lenient(config) ==
    IF ~IsDict(config)
    THEN Raised(MCPConfigurationError(
            <<"MCP configuration ", "must be a JSON object", ", got ", TypeName(config)>>), <<>>, <<>>)
    ELSE IF ~IsDict(DictGet(config, "servers", JObj(<<>>)))
    THEN Returned(<<JObj(<<>>)>>, <<>>, <<>>)
    ELSE Returned(<<DictGet(config, "servers", JObj(<<>>))>>, <<>>, <<>>)

\* Mutant: config.get("servers") without the {} default.
servers_of_required(config) ==
    IF ~IsDict(config)
    THEN Raised(MCPConfigurationError(
            <<"MCP configuration ", "must be a JSON object", ", got ", TypeName(config)>>), <<>>, <<>>)
    ELSE IF ~IsDict(DictGet(config, "servers", JNull))
    THEN Raised(MCPConfigurationError(
            <<"MCP configuration ", "'servers' must be an object">>), <<>>, <<>>)
    ELSE Returned(<<DictGet(config, "servers", JNull)>>, <<>>, <<>>)

\* Lines 74-81: the top-level shape.  Returns servers_config, or raises.
servers_of(config) ==
    IF ~IsDict(config)
    THEN Raised(MCPConfigurationError(
            <<"MCP configuration ", "must be a JSON object", ", got ", TypeName(config)>>), <<>>, <<>>)
    ELSE
    LET servers_config == DictGet(config, "servers", JObj(<<>>)) IN
    IF ~IsDict(servers_config)
    THEN Raised(MCPConfigurationError(
            <<"MCP configuration ", "'servers' must be an object">>), <<>>, <<>>)
    ELSE Returned(<<servers_config>>, <<>>, <<>>)

\* Mutant: a missing configuration file is an error.
load_servers_strict(config_path, file, vanishes) ==
    IF ~Exists(file)
    THEN Raised(MCPConfigurationError(<<"MCP configuration file not found: ", config_path>>), <<>>, <<>>)
    ELSE
    LET config == read_config(config_path, file, vanishes) IN
    IF config.status = "raise" THEN config
    ELSE
    LET servers_config == servers_of(config.value[1]) IN
    IF servers_config.status = "raise" THEN servers_config
    ELSE
    LET done == load_loop(servers_config.value[1].items, 1, [value |-> <<>>, log |-> <<>>, ctor |-> <<>>]) IN
    Returned(done.value, done.log, done.ctor)

load_servers(config_path, file, vanishes) ==
    IF ~Exists(file)
    THEN Returned(<<>>,
            <<LogRecord("warning", <<"MCP configuration file not found: ", config_path,
                                     ". Continuing with no MCP servers.">>)>>, <<>>)
    ELSE
    LET config == read_config(config_path, file, vanishes) IN
    IF config.status = "raise" THEN config
    ELSE
    LET servers_config == servers_of(config.value[1]) IN
    IF servers_config.status = "raise" THEN servers_config
    ELSE
    LET done == load_loop(servers_config.value[1].items, 1, [value |-> <<>>, log |-> <<>>, ctor |-> <<>>]) IN
    Returned(done.value,
        done.log \o <<LogRecord("info", <<"Successfully loaded ", DecStr(Len(done.value)),
                                          " MCP servers from ", config_path>>)>>,
        done.ctor)

(***************************************************************************)
(* Inputs: the entries, documents and files the model is run on.           *)
(***************************************************************************)
SeqUpTo(S, n) == UNION {[1..m -> S] : m \in 0..n}

\* An object written with the members type, url, command, args in that order,
\* the Absent ones left out.
EntryOf(ty, url, command, args) ==
    JObj(SelectSeq(<<Member("type", ty), Member("url", url),
                     Member("command", command), Member("args", args)>>,
                   LAMBDA m : m.val # Absent))

GoodUrl == JStr("http://example.com/mcp")
GoodCommand == JStr("python")
TypeOpts == {Absent, JStr("http"), JStr("stdio"), JStr(""), JStr("invalid_type"), JNum("123")}
UrlOpts == {Absent, GoodUrl, JStr(""), JNum("123"), JNum("0")}
CommandOpts == {Absent, GoodCommand, JStr(""), JNum("123")}
ArgElems == {JStr("-m"), JNum("123"), JNull}
ArgsOpts == {Absent, JNull, JStr("not a list")} \cup {JList(a) : a \in SeqUpTo(ArgElems, MaxArgs)}

EntryObjects ==
    {EntryOf(ty, url, command, args) :
        ty \in TypeOpts, url \in UrlOpts, command \in CommandOpts, args \in ArgsOpts}
NonDictEntries == {JStr("not a dict"), JNull, JList(<<>>), JNum("123"), JBool(TRUE)}
\* Objects that repeat a key.
DupKeyEntries ==
    {JObj(<<Member("type", JStr("invalid_type")), Member("type", JStr("http")), Member("url", GoodUrl)>>),
     JObj(<<Member("type", JStr("http")), Member("url", GoodUrl), Member("url", JNum("123"))>>),
     JObj(<<Member("type", JStr("stdio")), Member("command", JNum("123")), Member("command", GoodCommand)>>)}
EntryUniverse == EntryObjects \cup NonDictEntries \cup DupKeyEntries

\* The entries of the multi-entry documents: the written form of four valid
\* descriptors, and three entries that fail.
CoreEntries ==
    {EntryOf(JStr("http"), GoodUrl, Absent, Absent),
     EntryOf(JStr("http"), JStr("http://localhost:8080/sse"), Absent, Absent),
     EntryOf(JStr("stdio"), Absent, GoodCommand, JList(<<>>)),
     EntryOf(JStr("stdio"), Absent, GoodCommand, JList(<<JStr("-m"), JStr("server")>>)),
     EntryOf(JStr("invalid_type"), Absent, Absent, Absent),
     EntryOf(JStr("stdio"), Absent, GoodCommand, JList(<<JStr("-m"), JNum("123")>>)),
     JStr("not a dict")}

\* The i-th server name of a document.
ServerName(i) == "server" \o DecStr(i)

\* Key sequences of length n: all distinct, or the last key repeating the first.
KeySeqs(n) ==
    {[i \in 1..n |-> ServerName(i)]} \cup
    (IF n >= 2 THEN {[i \in 1..n |-> IF i = n THEN ServerName(1) ELSE ServerName(i)]} ELSE {})

ServersDoc(keys, entries) ==
    JObj(<<Member("servers", JObj([i \in 1..Len(keys) |-> Member(keys[i], entries[i])]))>>)

\* Documents whose top-level shape is valid.
ShapedDocs ==
    {JObj(<<>>), JObj(<<Member("other", JNum("123"))>>), ServersDoc(<<>>, <<>>),
     ServersDoc(<<"a">>, <<EntryOf(JStr("bogus"), Absent, Absent, Absent)>>),
     JObj(<<Member("servers", JStr("not a dict")), Member("servers", JObj(<<>>))>>)}
    \cup {ServersDoc(<<ServerName(1)>>, <<e>>) : e \in EntryUniverse \cup CoreEntries}
    \cup UNION {{ServersDoc(keys, es) : keys \in KeySeqs(n), es \in [1..n -> CoreEntries]} :
                n \in 2..MaxEntries}
\* Documents whose top-level shape is invalid.
MisshapenDocs ==
    {JList(<<JStr("not"), JStr("a"), JStr("dict")>>), JStr("text"), JNum("123"), JNull, JBool(TRUE),
     JObj(<<Member("servers", JStr("not a dict"))>>),
     JObj(<<Member("servers", JNull)>>),
     JObj(<<Member("servers", JList(<<EntryOf(JStr("http"), GoodUrl, Absent, Absent)>>))>>),
     JObj(<<Member("servers", JObj(<<>>)), Member("servers", JNum("0"))>>)}

FileStates ==
    {AbsentFile, UnreadableFile, GarbageFile, UndecodableFile}
    \cup {JsonFile(d) : d \in ShapedDocs \cup MisshapenDocs}
\* What the path the loader does not read may hold.
BackgroundFiles ==
    {AbsentFile, JsonFile(ServersDoc(<<"background">>, <<EntryOf(JStr("http"), GoodUrl, Absent, Absent)>>))}

\* The config_path argument: None, "", the default path, another path.
PathArgs == {JNull, JStr(""), JStr(DEFAULT_MCP_CONFIG_PATH), JStr(CustomPath)}

(***************************************************************************)
(* State machine.                                                          *)
(***************************************************************************)
\* The variables os.getenv is asked for (providers.py), all unset.
EnvNames ==
    {"TTS_PROVIDER", "TTS_LANGUAGE", "TTS_SPEAKING_RATE", "TTS_GOOGLE_VOICE_NAME",
     "TTS_GOOGLE_VOICE_GENDER", "TTS_ELEVENLABS_VOICE_ID", "TTS_ELEVENLABS_MODEL_ID",
     "TTS_ELEVENLABS_STABILITY", "TTS_ELEVENLABS_SIMILARITY_BOOST", "TTS_ELEVENLABS_STYLE",
     "TTS_ELEVENLABS_USE_SPEAKER_BOOST", "ELEVENLABS_API_KEY",
     "STT_PROVIDER", "STT_LANGUAGES", "STT_MODEL", "STT_PUNCTUATE",
     "STT_DEEPGRAM_SMART_FORMAT", "STT_DEEPGRAM_INTERIM_RESULTS",
     "LLM_PROVIDER", "LLM_MODEL", "LLM_TEMPERATURE", "LLM_MAX_REMOTE_CALLS",
     "LLM_OPENAI_MAX_TOKENS"}
NoEnv == [n \in EnvNames |-> JNull]
\* A worker process on which prewarm has not run, and no job.
\* warm: prewarm has run; userdata: what it stored (Absent: no such key);
\* loads: how many times load_servers was called in the process.
NoProc == [warm |-> FALSE, userdata |-> [vad |-> Absent, mcp_servers |-> Absent], loads |-> 0]
\* pc: where the invocation stands; n: how many invocations the process has
\* seen; session, options, assistant: what it built; calls: the platform
\* operations it called, in order; exc: the exception it raised.
NoJob ==
    [pc |-> "none", n |-> 0, session |-> JNull, options |-> JNull, assistant |-> JNull,
     calls |-> <<>>, exc |-> NoExc]

\* The list objects a fresh process holds: the module constant
\* DEFAULT_STT_LANGUAGES (constants.py) at address 0; Absent: no object there.
DEFAULT_STT_LANGUAGES == 0
NoHeap ==
    [a \in 0..MaxObjects |->
        IF a = DEFAULT_STT_LANGUAGES THEN JList(<<JStr("pl-PL")>>) ELSE Absent]
\* The execution contexts: the main one runs and the ContextVar has its
\* default None there; the others have not started.
NotStarted == [t |-> "not started", s |-> "", items |-> <<>>]
NoContext == [c \in 1..MaxContexts |-> IF c = 1 THEN JNull ELSE NotStarted]
\* The loggers of the logging module before configure_logging: no handlers,
\* records propagate, the root at WARNING (30) and the others at NOTSET (0).
LoggerNames ==
    {"root", "livekit.agents", "mcp", "homey_assistant", "homey_assistant.config",
     "homey_assistant.agent", "homey_assistant.utils", "homey_assistant.utils.logging",
     "homey_assistant.agent.conversation"}
NoLoggers ==
    [n \in LoggerNames |->
        [level |-> IF n = "root" THEN 30 ELSE 0, handlers |-> <<>>, propagate |-> TRUE]]
\* No manager was built, no id was set, logging is not configured.
NoObjects ==
    /\ heap = NoHeap
    /\ managers = <<>>
    /\ context = NoContext
    /\ loggers = NoLoggers

NoCall == [op |-> "none", name |-> "", cfg |-> JNull, file |-> AbsentFile, vanished |-> FALSE]
NoRet == [status |-> "none", value |-> <<>>, exc |-> NoExc]
Idle == call = NoCall

\* The outcome of a call becomes the observable state.
Record(c, outcome) ==
    /\ call' = c
    /\ ret' = [status |-> outcome.status, value |-> outcome.value, exc |-> outcome.exc]
    /\ log' = outcome.log
    /\ ctor' = outcome.ctor

\* A loader has been constructed over some file system; nothing was called.
InitLoad ==
    /\ \E arg \in PathArgs, f \in FileStates, g \in BackgroundFiles :
        /\ loader = MCPConfigLoader(arg)
        /\ fs = [p \in Paths |-> IF p = loader.config_path THEN f ELSE g]
    /\ call = NoCall
    /\ ret = NoRet
    /\ log = <<>>
    /\ ctor = <<>>
    /\ env = NoEnv
    /\ proc = NoProc
    /\ job = NoJob
    /\ NoObjects

\* loader.load_servers(); the file may vanish between os.path.exists and open.
LoadServers ==
    /\ Idle
    /\ \E vanishes \in BOOLEAN :
        /\ vanishes => Exists(fs[loader.config_path])
        /\ Record([op |-> "load_servers", name |-> loader.config_path, cfg |-> JNull,
                   file |-> fs[loader.config_path], vanished |-> vanishes],
                  load_servers(loader.config_path, fs[loader.config_path], vanishes))
        /\ fs' = IF vanishes THEN [fs EXCEPT ![loader.config_path] = AbsentFile] ELSE fs
    /\ UNCHANGED loader
    /\ UNCHANGED agentVars

\* A new loader is constructed.
Construct ==
    /\ Idle
    /\ \E arg \in PathArgs : loader' = MCPConfigLoader(arg)
    /\ UNCHANGED <<fs, call, ret, log, ctor>>
    /\ UNCHANGED agentVars

\* The environment removes a file.
RemoveFile ==
    /\ Idle
    /\ \E p \in Paths :
        /\ Exists(fs[p])
        /\ fs' = [fs EXCEPT ![p] = AbsentFile]
    /\ UNCHANGED <<loader, call, ret, log, ctor>>
    /\ UNCHANGED agentVars

\* The caller is done with the result of the call.
DropResult ==
    /\ ~Idle
    /\ call' = NoCall
    /\ ret' = NoRet
    /\ log' = <<>>
    /\ ctor' = <<>>
    /\ UNCHANGED <<fs, loader>>
    /\ UNCHANGED agentVars

NextLoad == LoadServers \/ Construct \/ RemoveFile \/ DropResult
SpecLoad == InitLoad /\ [][NextLoad]_vars

(***************************************************************************)
(* The _create_* methods called on their own, as the unit tests call them. *)
(***************************************************************************)
ConfigArgs == {PyValue(e) : e \in EntryUniverse}
NameArgs == {"test_server", ServerName(1)}

InitCreate ==
    /\ loader = MCPConfigLoader(JNull)
    /\ fs = [p \in Paths |-> AbsentFile]
    /\ call = NoCall
    /\ ret = NoRet
    /\ log = <<>>
    /\ ctor = <<>>
    /\ env = NoEnv
    /\ proc = NoProc
    /\ job = NoJob
    /\ NoObjects

CreateCall(op, name, cfg) == [op |-> op, name |-> name, cfg |-> cfg, file |-> AbsentFile, vanished |-> FALSE]

CallCreateServer ==
    /\ Idle
    /\ \E name \in NameArgs, cfg \in ConfigArgs :
        Record(CreateCall("_create_server", name, cfg), _create_server(name, cfg))
    /\ UNCHANGED <<fs, loader>>
    /\ UNCHANGED agentVars

CallCreateHttpServer ==
    /\ Idle
    /\ \E name \in NameArgs, cfg \in ConfigArgs :
        Record(CreateCall("_create_http_server", name, cfg), _create_http_server(name, cfg))
    /\ UNCHANGED <<fs, loader>>
    /\ UNCHANGED agentVars

CallCreateStdioServer ==
    /\ Idle
    /\ \E name \in NameArgs, cfg \in ConfigArgs :
        Record(CreateCall("_create_stdio_server", name, cfg), _create_stdio_server(name, cfg))
    /\ UNCHANGED <<fs, loader>>
    /\ UNCHANGED agentVars

NextCreate == CallCreateServer \/ CallCreateHttpServer \/ CallCreateStdioServer \/ DropResult
SpecCreate == InitCreate /\ [][NextCreate]_vars

(***************************************************************************)
(* What the specification says of an entry, stated without the loader:     *)
(* the schema of section 4.1 and the descriptor of section 3.              *)
(***************************************************************************)
HasKey(d, key) == \E i \in 1..Len(d.items) : d.items[i].k = key
Field(d, key) == d.items[CHOOSE i \in 1..Len(d.items) : d.items[i].k = key].val
NonEmptyStr(x) == x.t = "str" /\ x.s # ""
AllStr(x) == x.t = "list" /\ \A i \in 1..Len(x.items) : x.items[i].t = "str"
Contains(message, piece) == \E i \in 1..Len(message) : message[i] = piece

ValidHttpEntry(e) ==
    /\ e.t = "obj"
    /\ HasKey(e, "url") /\ NonEmptyStr(Field(e, "url"))
ValidStdioEntry(e) ==
    /\ e.t = "obj"
    /\ HasKey(e, "command") /\ NonEmptyStr(Field(e, "command"))
    /\ HasKey(e, "args") => AllStr(Field(e, "args"))
ValidEntry(e) ==
    /\ e.t = "obj"
    /\ HasKey(e, "type")
    /\ \/ Field(e, "type") = JStr("http") /\ ValidHttpEntry(e)
       \/ Field(e, "type") = JStr("stdio") /\ ValidStdioEntry(e)

\* The descriptor the specification gives a valid entry.
DescriptorOf(e) ==
    IF Field(e, "type") = JStr("http")
    THEN [kind |-> "http", url |-> Field(e, "url"), command |-> JNull, args |-> JNull]
    ELSE [kind |-> "stdio", url |-> JNull, command |-> Field(e, "command"),
          args |-> IF HasKey(e, "args") THEN Field(e, "args") ELSE JList(<<>>)]

\* A load_servers call that read the text of its file.
Loaded == call.op = "load_servers"
ReadText == Loaded /\ call.file.st = "file" /\ ~call.vanished /\ call.file.body # "undecodable"
ReadJson == ReadText /\ call.file.body = "json"
\* A parsed document of valid top-level shape, its `servers` mapping, and the
\* positions of the mapping's valid entries.
ShapeOk(cfg) == cfg.t = "obj" /\ (HasKey(cfg, "servers") => Field(cfg, "servers").t = "obj")
EntriesOf(cfg) == IF HasKey(cfg, "servers") THEN Field(cfg, "servers").items ELSE <<>>
ValidPositionsOf(es) == {i \in 1..Len(es) : ValidEntry(es[i].val)}
\* Those of the call.
Config == PyValue(call.file.doc)
ShapeValid == ReadJson /\ ShapeOk(Config)
Entries == EntriesOf(Config)
ValidPositions == ValidPositionsOf(Entries)

(***************************************************************************)
(* Claims.                                                                 *)
(***************************************************************************)

\* C1: for every document whose top-level shape is valid, load_servers
\* returns (raises nothing) whatever the entries hold; the result has one
\* descriptor for each entry that passes validation and none for an entry
\* that fails it, so its length is the number of valid entries.
C1_PartialSuccess ==
    ReadJson =>
    LET cfg == PyValue(call.file.doc)
        es == EntriesOf(cfg)
        valid == ValidPositionsOf(es)
    IN ShapeOk(cfg) =>
        /\ ret.status = "return"
        /\ ret.exc = NoExc
        /\ Len(ret.value) = Cardinality(valid)
        /\ \A i \in valid :
            \E j \in 1..Len(ret.value) : ret.value[j] = DescriptorOf(es[i].val)
        /\ \A j \in 1..Len(ret.value) :
            \E i \in valid : ret.value[j] = DescriptorOf(es[i].val)
        /\ Len(ctor) = Cardinality(valid)
\* A valid, an invalid and another valid entry: two descriptors.
C1_Witness ==
    /\ ShapeValid
    /\ Len(Entries) = 3
    /\ ValidPositions = {1, 3}
    /\ Len(ret.value) = 2

\* C2: when the file at config_path does not exist, load_servers returns the
\* empty list and raises nothing, for the default path and for another path.
C2_MissingFile ==
    (Loaded /\ ~Exists(call.file)) =>
        /\ ret.status = "return"
        /\ ret.value = <<>>
        /\ ret.exc = NoExc
        /\ ctor = <<>>
\* The loader's own path is absent while the default path holds a document.
C2_Witness ==
    /\ Loaded
    /\ call.name = CustomPath
    /\ ~Exists(call.file)
    /\ Exists(fs[DEFAULT_MCP_CONFIG_PATH])
    /\ ret.status = "return"

\* C3: when the file exists and its top-level shape is invalid, load_servers
\* raises MCPConfigurationError and builds no descriptor; text that is not
\* JSON gives "Invalid JSON", a parsed value that is not an object gives
\* "must be a JSON object", a `servers` that is not an object gives
\* "'servers' must be an object".
C3_InvalidShape ==
    ReadText =>
    LET cfg == PyValue(call.file.doc) IN
    ~(ReadJson /\ ShapeOk(cfg)) =>
        /\ ret.status = "raise"
        /\ ret.exc.type = "MCPConfigurationError"
        /\ ret.value = <<>>
        /\ ctor = <<>>
        /\ call.file.body = "garbage" => Contains(ret.exc.msg, "Invalid JSON")
        /\ (ReadJson /\ cfg.t # "obj") => Contains(ret.exc.msg, "must be a JSON object")
        /\ (ReadJson /\ cfg.t = "obj") => Contains(ret.exc.msg, "'servers' must be an object")
\* The last `servers` member of the document is not an object.
C3_Witness ==
    /\ ReadJson
    /\ Config.t = "obj"
    /\ HasKey(Config, "servers")
    /\ Field(Config, "servers") = JNum("0")
    /\ ret.status = "raise"

\* A call that reaches _create_http_server / _create_stdio_server with an
\* object: made directly, or dispatched by _create_server on the entry's type.
HttpCall ==
    /\ call.cfg.t = "obj"
    /\ \/ call.op = "_create_http_server"
       \/ call.op = "_create_server" /\ HasKey(call.cfg, "type") /\ Field(call.cfg, "type") = JStr("http")
StdioCall ==
    /\ call.cfg.t = "obj"
    /\ \/ call.op = "_create_stdio_server"
       \/ call.op = "_create_server" /\ HasKey(call.cfg, "type") /\ Field(call.cfg, "type") = JStr("stdio")
RaisedConfigError == ret.status = "raise" /\ ret.exc.type = "MCPConfigurationError"
NothingBuilt == ret.value = <<>> /\ ctor = <<>>

\* C4: for an entry of type "http", a non-empty string `url` gives exactly one
\* HTTP descriptor constructed with that URL; a missing, an empty and a
\* non-string `url` each raise MCPConfigurationError whose message names the
\* `url` field, and nothing is constructed.
C4_HttpEntry ==
    HttpCall =>
        IF HasKey(call.cfg, "url") /\ NonEmptyStr(Field(call.cfg, "url"))
        THEN /\ ret.status = "return"
             /\ Len(ret.value) = 1
             /\ ret.value[1].kind = "http"
             /\ ret.value[1].url = Field(call.cfg, "url")
             /\ ctor = <<CtorCall("MCPServerHTTP", <<Field(call.cfg, "url")>>)>>
        ELSE /\ RaisedConfigError
             /\ Contains(ret.exc.msg, "url")
             /\ NothingBuilt
\* A non-string `url` was refused by a direct call.
C4_Witness ==
    /\ call.op = "_create_http_server"
    /\ HttpCall
    /\ HasKey(call.cfg, "url")
    /\ Field(call.cfg, "url") = JNum("123")
    /\ RaisedConfigError

\* The smallest index (from 0) of a non-string element of a list.
MinNonStr(x) ==
    CHOOSE i \in 0..(Len(x.items) - 1) :
        /\ x.items[i + 1].t # "str"
        /\ \A j \in 0..(i - 1) : x.items[j + 1].t = "str"
\* The message holds "args[i]".
NamesIndex(message, i) ==
    \E p \in 1..(Len(message) - 3) :
        /\ message[p] = "args"
        /\ message[p + 1] = "["
        /\ message[p + 2] = DecStr(i)
        /\ message[p + 3] = "] must be a string, got "

\* C5: for an entry of type "stdio", a missing `command` raises an error that
\* names the `command` field; with a valid command, an absent `args` builds
\* the descriptor with an empty argument list, an `args` that is not a list
\* fails the entry, and an `args` with a non-string element raises an error
\* that names the smallest index of such an element; nothing is constructed
\* when the entry fails.
C5_StdioEntry ==
    StdioCall =>
        /\ ~HasKey(call.cfg, "command") =>
            /\ RaisedConfigError
            /\ Contains(ret.exc.msg, "command")
            /\ NothingBuilt
        /\ (HasKey(call.cfg, "command") /\ NonEmptyStr(Field(call.cfg, "command"))) =>
            /\ ~HasKey(call.cfg, "args") =>
                /\ ret.status = "return"
                /\ Len(ret.value) = 1
                /\ ret.value[1].kind = "stdio"
                /\ ret.value[1].command = Field(call.cfg, "command")
                /\ ret.value[1].args = JList(<<>>)
                /\ ctor = <<CtorCall("MCPServerStdio", <<Field(call.cfg, "command"), JList(<<>>)>>)>>
            /\ (HasKey(call.cfg, "args") /\ Field(call.cfg, "args").t # "list") =>
                /\ RaisedConfigError
                /\ NothingBuilt
            /\ (HasKey(call.cfg, "args") /\ Field(call.cfg, "args").t = "list"
                    /\ ~AllStr(Field(call.cfg, "args"))) =>
                /\ RaisedConfigError
                /\ NamesIndex(ret.exc.msg, MinNonStr(Field(call.cfg, "args")))
                /\ NothingBuilt
\* Two non-string elements: the error names index 0.
C5_Witness ==
    /\ StdioCall
    /\ HasKey(call.cfg, "command") /\ NonEmptyStr(Field(call.cfg, "command"))
    /\ HasKey(call.cfg, "args")
    /\ Field(call.cfg, "args") = JList(<<JNum("123"), JNull>>)
    /\ NamesIndex(ret.exc.msg, 0)

\* C6: _create_server accepts an entry only if it is an object whose `type`
\* is present and is "http" or "stdio"; a non-object entry, a missing `type`
\* and any other `type` each raise MCPConfigurationError naming the server,
\* and neither vendor constructor is invoked.
C6_TypeDispatch ==
    call.op = "_create_server" =>
        /\ ret.status = "return" =>
            /\ call.cfg.t = "obj"
            /\ HasKey(call.cfg, "type")
            /\ Field(call.cfg, "type") \in {JStr("http"), JStr("stdio")}
        /\ (\/ call.cfg.t # "obj"
            \/ ~HasKey(call.cfg, "type")
            \/ Field(call.cfg, "type") \notin {JStr("http"), JStr("stdio")}) =>
            /\ RaisedConfigError
            /\ Contains(ret.exc.msg, call.name)
            /\ NothingBuilt
\* An unsupported type, with a url and a command that would otherwise do.
C6_Witness ==
    /\ call.op = "_create_server"
    /\ call.cfg.t = "obj"
    /\ HasKey(call.cfg, "type") /\ Field(call.cfg, "type") = JStr("invalid_type")
    /\ HasKey(call.cfg, "url") /\ Field(call.cfg, "url") = GoodUrl
    /\ HasKey(call.cfg, "command") /\ Field(call.cfg, "command") = GoodCommand
    /\ RaisedConfigError

\* C7: every descriptor load_servers returns satisfies the descriptor
\* invariant: an HTTP descriptor has a non-empty string endpoint, a stdio
\* descriptor a non-empty string command and a list of strings as arguments.
C7_DescriptorInvariant ==
    Loaded =>
        \A j \in 1..Len(ret.value) :
            \/ /\ ret.value[j].kind = "http"
               /\ NonEmptyStr(ret.value[j].url)
            \/ /\ ret.value[j].kind = "stdio"
               /\ NonEmptyStr(ret.value[j].command)
               /\ AllStr(ret.value[j].args)
\* A stdio descriptor with two arguments was returned after an HTTP one.
C7_Witness ==
    /\ Loaded
    /\ Len(ret.value) = 2
    /\ ret.value[1].kind = "http"
    /\ ret.value[2].kind = "stdio"
    /\ Len(ret.value[2].args.items) = 2

\* The valid entries of a `servers` mapping, in the mapping's key order.
ValidEntriesOf(es) == SelectSeq(es, LAMBDA m : ValidEntry(m.val))

\* C8: the result follows the key order of the `servers` mapping: the
\* descriptors are those of the valid entries in that order, whatever
\* invalid entries lie between them.
C8_KeyOrder ==
    ReadJson =>
    LET cfg == PyValue(call.file.doc)
        valid == ValidEntriesOf(EntriesOf(cfg))
    IN ShapeOk(cfg) =>
        /\ Len(ret.value) = Len(valid)
        /\ \A j \in 1..Len(ret.value) : ret.value[j] = DescriptorOf(valid[j].val)
\* A stdio entry, an invalid entry, an HTTP entry: stdio first in the result.
C8_Witness ==
    /\ ShapeValid
    /\ Keys(Entries) = <<ServerName(1), ServerName(2), ServerName(3)>>
    /\ ValidPositions = {1, 3}
    /\ Len(ret.value) = 2
    /\ ret.value[1].kind = "stdio"
    /\ ret.value[2].kind = "http"

\* C9: for a document that is a JSON object in which `servers` is absent or
\* is an empty object, load_servers returns the empty list and raises nothing.
C9_NoServers ==
    ReadJson =>
    LET cfg == PyValue(call.file.doc) IN
    (cfg.t = "obj" /\ (HasKey(cfg, "servers") => Field(cfg, "servers") = JObj(<<>>))) =>
        /\ ret.status = "return"
        /\ ret.value = <<>>
        /\ ret.exc = NoExc
\* An object with another key and no `servers`.
C9_Witness ==
    /\ ReadJson
    /\ Config.t = "obj"
    /\ Config.items # <<>>
    /\ ~HasKey(Config, "servers")
    /\ ret.status = "return"

\* Valid descriptors and their written form: one entry per descriptor, named
\* server1, server2, ..., holding the descriptor's kind and fields.
ValidDescriptors ==
    {[kind |-> "http", url |-> u, command |-> JNull, args |-> JNull] :
        u \in {GoodUrl, JStr("http://localhost:8080/sse")}}
    \cup {[kind |-> "stdio", url |-> JNull, command |-> GoodCommand, args |-> JList(a)] :
        a \in {<<>>, <<JStr("-m"), JStr("server")>>}}
DescriptorSeqs == SeqUpTo(ValidDescriptors, MaxEntries)
EntryFor(d) ==
    IF d.kind = "http"
    THEN JObj(<<Member("type", JStr("http")), Member("url", d.url)>>)
    ELSE JObj(<<Member("type", JStr("stdio")), Member("command", d.command), Member("args", d.args)>>)
Serialize(ds) ==
    JObj(<<Member("servers", JObj([i \in 1..Len(ds) |-> Member(ServerName(i), EntryFor(ds[i]))]))>>)

WrittenDocs == {Serialize(ds) : ds \in DescriptorSeqs}

\* C10: round trip: loading the written form of a sequence of valid
\* descriptors returns descriptors equal to the originals in kind and fields,
\* in the same order.
C10_RoundTrip ==
    (ReadJson /\ call.file.doc \in WrittenDocs) =>
        /\ ret.status = "return"
        /\ \A ds \in DescriptorSeqs : call.file.doc = Serialize(ds) => ret.value = ds
\* Three descriptors, the stdio one with its two arguments in the middle.
C10_Witness ==
    /\ ReadJson
    /\ \E ds \in DescriptorSeqs :
        /\ Len(ds) = 3
        /\ ds[1].kind = "http"
        /\ ds[2].kind = "stdio" /\ Len(ds[2].args.items) = 2
        /\ ds[3].kind = "http" /\ ds[3] # ds[1]
        /\ call.file.doc = Serialize(ds)
        /\ ret.value = ds

(***************************************************************************)
(* The log of a load_servers call.                                         *)
(***************************************************************************)
\* The records of one level, and those that report the failure of an entry.
AtLevel(records, lvl) == SelectSeq(records, LAMBDA r : r.level = lvl)
FailureOf(records, name) ==
    SelectSeq(records, LAMBDA r : /\ Len(r.msg) >= 3
                                  /\ r.msg[1] = "Failed to create MCP server '"
                                  /\ r.msg[2] = name)
\* The document holds one entry, an object whose `type` is a string other
\* than "http" and "stdio" (as {"servers": {"a": {"type": "bogus"}}} does).
OneUnsupportedEntry(cfg) ==
    /\ ShapeOk(cfg)
    /\ Len(EntriesOf(cfg)) = 1
    /\ EntriesOf(cfg)[1].val.t = "obj"
    /\ HasKey(EntriesOf(cfg)[1].val, "type")
    /\ NonEmptyStr(Field(EntriesOf(cfg)[1].val, "type"))
    /\ Field(EntriesOf(cfg)[1].val, "type").s \notin {"http", "stdio"}

\* C11 as stated: for a document with one entry of unsupported type,
\* load_servers returns the empty list, raises nothing and logs exactly one
\* warning for that entry.
C11_OneWarning ==
    ReadJson =>
    LET cfg == PyValue(call.file.doc) IN
    OneUnsupportedEntry(cfg) =>
        /\ ret.status = "return"
        /\ ret.value = <<>>
        /\ ret.exc = NoExc
        /\ Len(FailureOf(AtLevel(log, "warning"), EntriesOf(cfg)[1].k)) = 1

\* C11 amended: for a document with one entry of unsupported type,
\* load_servers returns the empty list, raises nothing and logs exactly one
\* record for that entry, at level error (logger.error) and carrying the
\* entry's name and the exception's text; it logs no warning at all.
C11_OneErrorRecord ==
    ReadJson =>
    LET cfg == PyValue(call.file.doc) IN
    OneUnsupportedEntry(cfg) =>
        /\ ret.status = "return"
        /\ ret.value = <<>>
        /\ ret.exc = NoExc
        /\ ctor = <<>>
        /\ Len(FailureOf(log, EntriesOf(cfg)[1].k)) = 1
        /\ FailureOf(log, EntriesOf(cfg)[1].k) = FailureOf(AtLevel(log, "error"), EntriesOf(cfg)[1].k)
        /\ Contains(FailureOf(log, EntriesOf(cfg)[1].k)[1].msg, "' has unsupported type '")
        /\ AtLevel(log, "warning") = <<>>
\* The document {"servers": {"a": {"type": "bogus"}}} was loaded.
C11_Witness ==
    /\ ReadJson
    /\ call.file.doc = ServersDoc(<<"a">>, <<EntryOf(JStr("bogus"), Absent, Absent, Absent)>>)
    /\ ret.status = "return"
    /\ ret.value = <<>>
    /\ Len(log) = 2
    /\ log[1].level = "error"

(***************************************************************************)
(* Part 2: src/homey_assistant/config/providers.py                         *)
(*                                                                         *)
(* Conversions of environment strings.  A float is [t |-> "float"] with    *)
(* its repr as text; a conversion that fails yields a ValueError.          *)
(***************************************************************************)
ValueError(message) == [type |-> "ValueError", msg |-> message]
RuntimeError(message) == [type |-> "RuntimeError", msg |-> message]
PyFloat(text) == [t |-> "float", s |-> text, items |-> <<>>]
Invalid == [t |-> "invalid", s |-> "", items |-> <<>>]

\* str.lower() on the strings of the model.
Lower(text) ==
    CASE text = "GOOGLE" -> "google"
      [] text = "Google" -> "google"
      [] text = " Google" -> " google"
      [] text = "ElevenLabs" -> "elevenlabs"
      [] text = "ELEVENLABS" -> "elevenlabs"
      [] text = "Deepgram" -> "deepgram"
      [] text = "OpenAI" -> "openai"
      [] text = "OPENAI" -> "openai"
      [] text = "Azure" -> "azure"
      [] text = "TRUE" -> "true"
      [] text = "True" -> "true"
      [] text = "False" -> "false"
      [] OTHER -> text

\* float(x): of a float, the float; of a string, the number it spells
\* (surrounding blanks ignored), else ValueError.
float(x) ==
    IF x.t = "float" THEN x
    ELSE CASE x.s = "0" -> PyFloat("0.0")
           [] x.s = "1" -> PyFloat("1.0")
           [] x.s = "0.2" -> PyFloat("0.2")
           [] x.s = "0.3" -> PyFloat("0.3")
           [] x.s = "0.7" -> PyFloat("0.7")
           [] x.s = " 0.9 " -> PyFloat("0.9")
           [] x.s = "1.15" -> PyFloat("1.15")
           [] x.s = "1.5" -> PyFloat("1.5")
           [] OTHER -> Invalid

\* int(x) of a string.
int(x) ==
    CASE x.s = "0" -> JNum("0")
      [] x.s = "5" -> JNum("5")
      [] x.s = "100" -> JNum("100")
      [] x.s = " 256 " -> JNum("256")
      [] OTHER -> Invalid

\* `if x:` for a value that may be a float.
TruthyValue(x) == IF x.t = "float" THEN x.s # "0.0" ELSE Truthy(x)

\* [lang.strip() for lang in languages_str.split(",")]
SplitLanguages(text) ==
    CASE text = "pl-PL" -> <<JStr("pl-PL")>>
      [] text = "en-US, pl-PL" -> <<JStr("en-US"), JStr("pl-PL")>>
      [] text = "" -> <<JStr("")>>
      [] OTHER -> <<JStr(text)>>

\* os.getenv(name, default)
getenv(e, name, default) == IF e[name] = JNull THEN default ELSE e[name]

\* The first failed conversion among values, as the exception float()/int()
\* raises; NoExc when none failed.
ConversionError(values, function) ==
    IF \E i \in 1..Len(values) : values[i].conv = Invalid
    THEN LET i == CHOOSE j \in 1..Len(values) :
                    /\ values[j].conv = Invalid
                    /\ \A k \in 1..(j - 1) : values[k].conv # Invalid
         IN ValueError(<<function, values[i].text.s>>)
    ELSE NoExc
Conv(text, value) == [text |-> text, conv |-> value]

(***************************************************************************)
(* The provider enumerations (lines 20-38) and the *_PROVIDER lookup.      *)
(***************************************************************************)
TTSProvider == {"google", "elevenlabs"}
STTProvider == {"google", "deepgram"}
LLMProvider == {"google", "openai"}
GOOGLE == "google"

\* os.getenv("<CAP>_PROVIDER", "google").lower()
provider_name(e, variable) == Lower(getenv(e, variable, JStr("google")).s)

\* Mutant: the ValueError of the enumeration reaches the caller.
select_provider_strict(members, capability, name) ==
    IF name \in members
    THEN Returned(<<name>>, <<>>, <<>>)
    ELSE Raised(ValueError(<<"'", name, "' is not a valid ", capability, "Provider">>), <<>>, <<>>)

\* try: provider = XProvider(provider_name) / except ValueError: warning, GOOGLE
select_provider(members, capability, name) ==
    IF name \in members
    THEN Returned(<<name>>, <<>>, <<>>)
    ELSE Returned(<<GOOGLE>>,
            <<LogRecord("warning", <<"Unknown ", capability, " provider '", name,
                                     "', defaulting to Google">>)>>, <<>>)

(***************************************************************************)
(* ProviderConfigLoader: the configuration records (lines 41-92) and the   *)
(* three loaders (lines 298-445).  A field that was not set is JNull.      *)
(***************************************************************************)
TTSConfig(provider, language, speaking_rate) ==
    [provider |-> provider, language |-> language, speaking_rate |-> speaking_rate,
     voice_name |-> JNull, voice_gender |-> JNull, voice_id |-> JNull, model_id |-> JNull,
     stability |-> JNull, similarity_boost |-> JNull, style |-> JNull, speed |-> JNull,
     use_speaker_boost |-> JNull]
STTConfig(provider, model, languages, punctuate) ==
    [provider |-> provider, model |-> model, languages |-> languages, punctuate |-> punctuate,
     smart_format |-> JNull, interim_results |-> JNull]
LLMConfig(provider, model, temperature, maximum_remote_calls) ==
    [provider |-> provider, model |-> model, temperature |-> temperature,
     maximum_remote_calls |-> maximum_remote_calls, max_tokens |-> JNull]

\* x = os.getenv(name); if x: config.field = float(x)
OptionalFloat(e, name) ==
    IF Truthy(getenv(e, name, JNull)) THEN float(getenv(e, name, JNull)) ELSE JNull
\* x = os.getenv(name); if x: config.field = x.lower() == "true"
OptionalFlag(e, name) ==
    IF Truthy(getenv(e, name, JNull))
    THEN JBool(Lower(getenv(e, name, JNull).s) = "true")
    ELSE JNull
\* x = os.getenv(name); if x: config.field = int(x)
OptionalInt(e, name) ==
    IF Truthy(getenv(e, name, JNull)) THEN int(getenv(e, name, JNull)) ELSE JNull

load_tts_config(e) ==
    LET selected == select_provider(TTSProvider, "TTS", provider_name(e, "TTS_PROVIDER")) IN
    IF selected.status = "raise" THEN selected
    ELSE
    LET provider == selected.value[1]
        speaking_rate == float(getenv(e, "TTS_SPEAKING_RATE", JStr("1.15")))
        config == TTSConfig(provider, getenv(e, "TTS_LANGUAGE", JStr("pl-PL")), speaking_rate)
        stability == OptionalFloat(e, "TTS_ELEVENLABS_STABILITY")
        similarity_boost == OptionalFloat(e, "TTS_ELEVENLABS_SIMILARITY_BOOST")
        style == OptionalFloat(e, "TTS_ELEVENLABS_STYLE")
        failed ==
            ConversionError(
                <<Conv(getenv(e, "TTS_SPEAKING_RATE", JStr("1.15")), speaking_rate)>> \o
                (IF provider = "elevenlabs"
                 THEN <<Conv(e["TTS_ELEVENLABS_STABILITY"], stability),
                        Conv(e["TTS_ELEVENLABS_SIMILARITY_BOOST"], similarity_boost),
                        Conv(e["TTS_ELEVENLABS_STYLE"], style)>>
                 ELSE <<>>),
                "could not convert string to float: ")
        loaded ==
            IF provider = GOOGLE
            THEN [config EXCEPT
                    !.voice_name = getenv(e, "TTS_GOOGLE_VOICE_NAME", JStr("pl-PL-Chirp3-HD-Despina")),
                    !.voice_gender = getenv(e, "TTS_GOOGLE_VOICE_GENDER", JStr("female"))]
            ELSE [config EXCEPT
                    !.voice_id = getenv(e, "TTS_ELEVENLABS_VOICE_ID", JNull),
                    !.model_id = getenv(e, "TTS_ELEVENLABS_MODEL_ID", JStr("eleven_multilingual_v2")),
                    !.stability = stability,
                    !.similarity_boost = similarity_boost,
                    !.style = style,
                    !.speed = IF TruthyValue(config.speaking_rate)
                              THEN float(config.speaking_rate) ELSE JNull,
                    !.use_speaker_boost = OptionalFlag(e, "TTS_ELEVENLABS_USE_SPEAKER_BOOST")]
    IN
    IF failed # NoExc THEN Raised(failed, selected.log, <<>>)
    ELSE Returned(<<loaded>>,
            selected.log \o
            <<LogRecord("info", <<"Loaded TTS config: provider=", provider,
                                  ", language=", loaded.language.s>>)>>, <<>>)

\* Mutant: the default model is chosen by the provider name as written.
load_stt_config_by_name(e) ==
    LET selected == select_provider(STTProvider, "STT", provider_name(e, "STT_PROVIDER")) IN
    IF selected.status = "raise" THEN selected
    ELSE
    LET provider == selected.value[1]
        config ==
            STTConfig(provider,
                getenv(e, "STT_MODEL", JStr(IF provider_name(e, "STT_PROVIDER") = GOOGLE
                                        THEN "latest_long" ELSE "nova-2")),
                JList(SplitLanguages(getenv(e, "STT_LANGUAGES", JStr("pl-PL")).s)),
                JBool(Lower(getenv(e, "STT_PUNCTUATE", JStr("false")).s) = "true"))
        loaded ==
            IF provider = "deepgram"
            THEN [config EXCEPT
                    !.smart_format = OptionalFlag(e, "STT_DEEPGRAM_SMART_FORMAT"),
                    !.interim_results = OptionalFlag(e, "STT_DEEPGRAM_INTERIM_RESULTS")]
            ELSE config
    IN
    Returned(<<loaded>>,
        selected.log \o
        <<LogRecord("info", <<"Loaded STT config: provider=", provider,
                              ", model=", loaded.model.s>>)>>, <<>>)
load_stt_config(e) ==
    LET selected == select_provider(STTProvider, "STT", provider_name(e, "STT_PROVIDER")) IN
    IF selected.status = "raise" THEN selected
    ELSE
    LET provider == selected.value[1]
        config ==
            STTConfig(provider,
                getenv(e, "STT_MODEL", JStr(IF provider = GOOGLE THEN "latest_long" ELSE "nova-2")),
                JList(SplitLanguages(getenv(e, "STT_LANGUAGES", JStr("pl-PL")).s)),
                JBool(Lower(getenv(e, "STT_PUNCTUATE", JStr("false")).s) = "true"))
        loaded ==
            IF provider = "deepgram"
            THEN [config EXCEPT
                    !.smart_format = OptionalFlag(e, "STT_DEEPGRAM_SMART_FORMAT"),
                    !.interim_results = OptionalFlag(e, "STT_DEEPGRAM_INTERIM_RESULTS")]
            ELSE config
    IN
    Returned(<<loaded>>,
        selected.log \o
        <<LogRecord("info", <<"Loaded STT config: provider=", provider,
                              ", model=", loaded.model.s>>)>>, <<>>)

\* Mutant: LLM_OPENAI_MAX_TOKENS is read for every provider.
load_llm_config_any_provider(e) ==
    LET selected == select_provider(LLMProvider, "LLM", provider_name(e, "LLM_PROVIDER")) IN
    IF selected.status = "raise" THEN selected
    ELSE
    LET provider == selected.value[1]
        default_model == IF provider = GOOGLE THEN "gemini-2.5-flash" ELSE "gpt-4o-mini"
        temperature == float(getenv(e, "LLM_TEMPERATURE", JStr("0.7")))
        maximum_remote_calls == int(getenv(e, "LLM_MAX_REMOTE_CALLS", JStr("100")))
        max_tokens == OptionalInt(e, "LLM_OPENAI_MAX_TOKENS")
        config == LLMConfig(provider, getenv(e, "LLM_MODEL", JStr(default_model)),
                            temperature, maximum_remote_calls)
        failed ==
            IF temperature = Invalid
            THEN ValueError(<<"could not convert string to float: ",
                              getenv(e, "LLM_TEMPERATURE", JStr("0.7")).s>>)
            ELSE ConversionError(
                    <<Conv(getenv(e, "LLM_MAX_REMOTE_CALLS", JStr("100")), maximum_remote_calls)>> \o
                    <<Conv(e["LLM_OPENAI_MAX_TOKENS"], max_tokens)>>,
                    "invalid literal for int() with base 10: ")
        loaded == [config EXCEPT !.max_tokens = max_tokens]
    IN
    IF failed # NoExc THEN Raised(failed, selected.log, <<>>)
    ELSE Returned(<<loaded>>,
            selected.log \o
            <<LogRecord("info", <<"Loaded LLM config: provider=", provider,
                                  ", model=", loaded.model.s>>)>>, <<>>)
load_llm_config(e) ==
    LET selected == select_provider(LLMProvider, "LLM", provider_name(e, "LLM_PROVIDER")) IN
    IF selected.status = "raise" THEN selected
    ELSE
    LET provider == selected.value[1]
        default_model == IF provider = GOOGLE THEN "gemini-2.5-flash" ELSE "gpt-4o-mini"
        temperature == float(getenv(e, "LLM_TEMPERATURE", JStr("0.7")))
        maximum_remote_calls == int(getenv(e, "LLM_MAX_REMOTE_CALLS", JStr("100")))
        max_tokens == OptionalInt(e, "LLM_OPENAI_MAX_TOKENS")
        config == LLMConfig(provider, getenv(e, "LLM_MODEL", JStr(default_model)),
                            temperature, maximum_remote_calls)
        failed ==
            IF temperature = Invalid
            THEN ValueError(<<"could not convert string to float: ",
                              getenv(e, "LLM_TEMPERATURE", JStr("0.7")).s>>)
            ELSE ConversionError(
                    <<Conv(getenv(e, "LLM_MAX_REMOTE_CALLS", JStr("100")), maximum_remote_calls)>> \o
                    (IF provider = "openai"
                     THEN <<Conv(e["LLM_OPENAI_MAX_TOKENS"], max_tokens)>> ELSE <<>>),
                    "invalid literal for int() with base 10: ")
        loaded == IF provider = "openai" THEN [config EXCEPT !.max_tokens = max_tokens] ELSE config
    IN
    IF failed # NoExc THEN Raised(failed, selected.log, <<>>)
    ELSE Returned(<<loaded>>,
            selected.log \o
            <<LogRecord("info", <<"Loaded LLM config: provider=", provider,
                                  ", model=", loaded.model.s>>)>>, <<>>)

(***************************************************************************)
(* ProviderFactory (lines 95-292).  A vendor client keeps the keyword      *)
(* arguments it was constructed with; `outcome` is what the vendor's       *)
(* constructor does with them: NoExc when it returns, else the exception   *)
(* it raises.                                                              *)
(***************************************************************************)
Client(vendor, kwargs) == [vendor |-> vendor, kwargs |-> kwargs]
VoiceSettings(kwargs) == [t |-> "VoiceSettings", s |-> "", items |-> kwargs]
\* kwargs[key] = value, under a condition.
Kwarg(present, key, value) == IF present THEN <<Member(key, value)>> ELSE <<>>
\* vendor(**kwargs), after the constructor calls `before` made on the way.
Construction(vendor, kwargs, outcome, before) ==
    IF outcome = NoExc
    THEN Returned(<<Client(vendor, kwargs)>>, <<>>, before \o <<CtorCall(vendor, kwargs)>>)
    ELSE Raised(outcome, <<>>, before \o <<CtorCall(vendor, kwargs)>>)

_create_google_tts(config, outcome) ==
    Construction("google.TTS",
        <<Member("language", config.language), Member("speaking_rate", config.speaking_rate)>>
        \o Kwarg(TruthyValue(config.voice_name), "voice_name", config.voice_name)
        \o Kwarg(TruthyValue(config.voice_gender), "gender", config.voice_gender),
        outcome, <<>>)

_create_elevenlabs_tts(config, e, outcome) ==
    LET custom ==
            \/ config.stability # JNull
            \/ config.similarity_boost # JNull
            \/ config.style # JNull
            \/ config.speed # JNull
            \/ config.use_speaker_boost # JNull
        voice_settings_kwargs ==
            <<Member("stability",
                     IF config.stability # JNull THEN config.stability ELSE PyFloat("0.5")),
              Member("similarity_boost",
                     IF config.similarity_boost # JNull THEN config.similarity_boost
                     ELSE PyFloat("0.75"))>>
            \o Kwarg(config.style # JNull, "style", config.style)
            \o Kwarg(config.speed # JNull, "speed", config.speed)
            \o Kwarg(config.use_speaker_boost # JNull, "use_speaker_boost", config.use_speaker_boost)
        api_key == getenv(e, "ELEVENLABS_API_KEY", JNull)
    IN Construction("elevenlabs.TTS",
        Kwarg(TruthyValue(config.voice_id), "voice_id", config.voice_id)
        \o Kwarg(TruthyValue(config.model_id), "model", config.model_id)
        \o Kwarg(custom, "voice_settings", VoiceSettings(voice_settings_kwargs))
        \o Kwarg(Truthy(api_key), "api_key", api_key),
        outcome,
        IF custom THEN <<CtorCall("elevenlabs.VoiceSettings", voice_settings_kwargs)>> ELSE <<>>)

_create_google_stt(config, outcome) ==
    Construction("google.STT",
        <<Member("model", config.model), Member("languages", config.languages),
          Member("punctuate", config.punctuate)>>,
        outcome, <<>>)

_create_deepgram_stt(config, outcome) ==
    Construction("deepgram.STT",
        <<Member("model", config.model),
          Member("language", IF Truthy(config.languages) THEN config.languages.items[1]
                             ELSE JStr("pl-PL"))>>
        \o Kwarg(config.smart_format # JNull, "smart_format", config.smart_format)
        \o Kwarg(config.interim_results # JNull, "interim_results", config.interim_results)
        \o Kwarg(config.punctuate # JNull, "punctuate", config.punctuate),
        outcome, <<>>)

_create_google_llm(config, outcome) ==
    Construction("google.LLM",
        <<Member("model", config.model), Member("temperature", config.temperature),
          Member("automatic_function_calling_config",
                 JObj(<<Member("maximum_remote_calls", config.maximum_remote_calls)>>))>>,
        outcome, <<>>)

_create_openai_llm(config, outcome) ==
    Construction("openai.LLM",
        <<Member("model", config.model), Member("temperature", config.temperature)>>
        \o Kwarg(TruthyValue(config.max_tokens), "max_tokens", config.max_tokens),
        outcome, <<>>)

\* try: debug; return the client / except Exception as e: error; raise
Guarded(capability, provider, made) ==
    IF made.status = "return"
    THEN Returned(made.value,
            <<LogRecord("debug", <<"Creating ", capability, " provider: ", provider>>)>> \o made.log,
            made.ctor)
    ELSE Raised(made.exc,
            <<LogRecord("debug", <<"Creating ", capability, " provider: ", provider>>)>> \o made.log
            \o <<LogRecord("error", <<"Failed to create ", capability, " provider ", provider, ": ">>
                                    \o made.exc.msg)>>,
            made.ctor)
Unsupported(capability, provider) ==
    Raised(ValueError(<<"Unsupported ", capability, " provider: ", provider>>), <<>>, <<>>)

\* Mutant: when the selected vendor fails, the Google client is built instead.
create_tts_fallback(config, e, outcome) ==
    LET made == IF config.provider = GOOGLE THEN _create_google_tts(config, outcome)
                ELSE _create_elevenlabs_tts(config, e, outcome)
        second == _create_google_tts(config, NoExc)
    IN IF made.status = "return" THEN Guarded("TTS", config.provider, made)
       ELSE Returned(second.value, made.log, made.ctor \o second.ctor)

create_tts(config, e, outcome) ==
    Guarded("TTS", config.provider,
        IF config.provider = GOOGLE THEN _create_google_tts(config, outcome)
        ELSE IF config.provider = "elevenlabs" THEN _create_elevenlabs_tts(config, e, outcome)
        ELSE Unsupported("TTS", config.provider))

create_stt(config, outcome) ==
    Guarded("STT", config.provider,
        IF config.provider = GOOGLE THEN _create_google_stt(config, outcome)
        ELSE IF config.provider = "deepgram" THEN _create_deepgram_stt(config, outcome)
        ELSE Unsupported("STT", config.provider))

create_llm(config, outcome) ==
    Guarded("LLM", config.provider,
        IF config.provider = GOOGLE THEN _create_google_llm(config, outcome)
        ELSE IF config.provider = "openai" THEN _create_openai_llm(config, outcome)
        ELSE Unsupported("LLM", config.provider))

(***************************************************************************)
(* The provider loaders and the factory called on their own.               *)
(***************************************************************************)
\* What a *_PROVIDER variable may hold: unset, the enumeration values in
\* several spellings, and names no enumeration knows.
ProviderStrings ==
    {JNull, JStr("google"), JStr("GOOGLE"), JStr("Google"), JStr(" Google"),
     JStr("elevenlabs"), JStr("ElevenLabs"), JStr("ELEVENLABS"),
     JStr("deepgram"), JStr("Deepgram"), JStr("openai"), JStr("OpenAI"), JStr("OPENAI"),
     JStr(""), JStr("azure"), JStr("Azure")}
Set(e, name, value) == [e EXCEPT ![name] = value]

TtsEnvs ==
    {Set(Set(NoEnv, "TTS_PROVIDER", p), "TTS_SPEAKING_RATE", rate) :
        p \in ProviderStrings, rate \in {JNull, JStr("0"), JStr("1.5"), JStr("fast")}}
    \cup
    {[NoEnv EXCEPT !["TTS_PROVIDER"] = p,
                   !["TTS_SPEAKING_RATE"] = rate,
                   !["TTS_ELEVENLABS_STABILITY"] = stability,
                   !["TTS_ELEVENLABS_SIMILARITY_BOOST"] = similarity,
                   !["TTS_ELEVENLABS_STYLE"] = style,
                   !["TTS_ELEVENLABS_USE_SPEAKER_BOOST"] = boost,
                   !["TTS_ELEVENLABS_VOICE_ID"] = key,
                   !["ELEVENLABS_API_KEY"] = key] :
        p \in {JStr("elevenlabs"), JStr("ElevenLabs")},
        rate \in {JNull, JStr("0"), JStr("1.5")},
        stability \in {JNull, JStr(""), JStr("0.3"), JStr("high")},
        similarity \in {JNull, JStr(" 0.9 ")},
        style \in {JNull, JStr("0.2")},
        boost \in {JNull, JStr("TRUE"), JStr("false")},
        key \in {JNull, JStr("secret")}}
    \cup
    \* Both providers' variables set, under each kind of provider name.
    {[NoEnv EXCEPT !["TTS_PROVIDER"] = p,
                   !["TTS_GOOGLE_VOICE_NAME"] = voice,
                   !["TTS_GOOGLE_VOICE_GENDER"] = voice,
                   !["TTS_ELEVENLABS_VOICE_ID"] = JStr("voice-1"),
                   !["TTS_ELEVENLABS_MODEL_ID"] = JStr("eleven_turbo_v2"),
                   !["TTS_ELEVENLABS_STABILITY"] = stability,
                   !["TTS_ELEVENLABS_SIMILARITY_BOOST"] = JStr(" 0.9 "),
                   !["TTS_ELEVENLABS_STYLE"] = JStr("0.2"),
                   !["TTS_ELEVENLABS_USE_SPEAKER_BOOST"] = JStr("TRUE"),
                   !["ELEVENLABS_API_KEY"] = JStr("secret")] :
        p \in {JNull, JStr("google"), JStr("GOOGLE"), JStr("azure"), JStr("elevenlabs")},
        voice \in {JNull, JStr("male")},
        stability \in {JStr("0.3"), JStr("high")}}
SttEnvs ==
    {Set(Set(NoEnv, "STT_PROVIDER", p), "STT_LANGUAGES", langs) :
        p \in ProviderStrings, langs \in {JNull, JStr("en-US, pl-PL"), JStr("")}}
    \cup
    {[NoEnv EXCEPT !["STT_PROVIDER"] = p,
                   !["STT_MODEL"] = model,
                   !["STT_PUNCTUATE"] = punctuate,
                   !["STT_DEEPGRAM_SMART_FORMAT"] = smart,
                   !["STT_DEEPGRAM_INTERIM_RESULTS"] = interim] :
        p \in {JStr("deepgram"), JStr("Deepgram")},
        model \in {JNull, JStr("nova-3")},
        punctuate \in {JNull, JStr("True")},
        smart \in {JNull, JStr(""), JStr("TRUE"), JStr("no")},
        interim \in {JNull, JStr("true")}}
    \cup
    \* STT_MODEL and the Deepgram variables under each kind of provider name.
    {[NoEnv EXCEPT !["STT_PROVIDER"] = p,
                   !["STT_MODEL"] = model,
                   !["STT_DEEPGRAM_SMART_FORMAT"] = smart,
                   !["STT_DEEPGRAM_INTERIM_RESULTS"] = smart] :
        p \in {JNull, JStr("google"), JStr("Google"), JStr("azure"), JStr(""), JStr("deepgram")},
        model \in {JNull, JStr(""), JStr("chirp")},
        smart \in {JNull, JStr("TRUE")}}
LlmEnvs ==
    {Set(Set(NoEnv, "LLM_PROVIDER", p), "LLM_TEMPERATURE", temperature) :
        p \in ProviderStrings, temperature \in {JNull, JStr("0.2"), JStr("hot")}}
    \cup
    {[NoEnv EXCEPT !["LLM_PROVIDER"] = p,
                   !["LLM_MODEL"] = model,
                   !["LLM_MAX_REMOTE_CALLS"] = calls,
                   !["LLM_OPENAI_MAX_TOKENS"] = tokens] :
        p \in {JStr("openai"), JStr("OPENAI")},
        model \in {JNull, JStr("gpt-4o")},
        calls \in {JNull, JStr("5"), JStr("1e3")},
        tokens \in {JNull, JStr(""), JStr("0"), JStr(" 256 "), JStr("many")}}
    \cup
    \* LLM_MODEL and LLM_OPENAI_MAX_TOKENS under each kind of provider name.
    {[NoEnv EXCEPT !["LLM_PROVIDER"] = p,
                   !["LLM_MODEL"] = model,
                   !["LLM_OPENAI_MAX_TOKENS"] = tokens] :
        p \in {JNull, JStr("google"), JStr("GOOGLE"), JStr("azure"), JStr(""), JStr("openai")},
        model \in {JNull, JStr(""), JStr("gemini-pro")},
        tokens \in {JNull, JStr(" 256 "), JStr("many")}}
Envs == TtsEnvs \cup SttEnvs \cup LlmEnvs

\* What a vendor constructor may do: return, or raise one of its exceptions.
VendorErrors == {RuntimeError(<<"connection refused">>), ValueError(<<"invalid api key">>)}
VendorOutcomes == {NoExc} \cup VendorErrors

ProviderCall(op, config, outcome) ==
    [op |-> op, name |-> "", cfg |-> config, file |-> AbsentFile, vanished |-> FALSE,
     outcome |-> outcome]
\* The configuration the last call loaded, for the capability `op` loads.
LoadedBy(op) == call.op = op /\ ret.status = "return"

InitProvider ==
    /\ env \in Envs
    /\ loader = MCPConfigLoader(JNull)
    /\ fs = [p \in Paths |-> AbsentFile]
    /\ call = NoCall
    /\ ret = NoRet
    /\ log = <<>>
    /\ ctor = <<>>
    /\ proc = NoProc
    /\ job = NoJob
    /\ NoObjects

LoadTtsConfig ==
    /\ Idle
    /\ Record(ProviderCall("load_tts_config", JNull, NoExc), load_tts_config(env))
    /\ UNCHANGED <<fs, loader, agentVars>>
LoadSttConfig ==
    /\ Idle
    /\ Record(ProviderCall("load_stt_config", JNull, NoExc), load_stt_config(env))
    /\ UNCHANGED <<fs, loader, agentVars>>
LoadLlmConfig ==
    /\ Idle
    /\ Record(ProviderCall("load_llm_config", JNull, NoExc), load_llm_config(env))
    /\ UNCHANGED <<fs, loader, agentVars>>

\* ProviderFactory.create_*(config) on the configuration just loaded.
CreateTts ==
    /\ LoadedBy("load_tts_config")
    /\ \E outcome \in VendorOutcomes :
        Record(ProviderCall("create_tts", ret.value[1], outcome),
               create_tts(ret.value[1], env, outcome))
    /\ UNCHANGED <<fs, loader, agentVars>>
CreateStt ==
    /\ LoadedBy("load_stt_config")
    /\ \E outcome \in VendorOutcomes :
        Record(ProviderCall("create_stt", ret.value[1], outcome),
               create_stt(ret.value[1], outcome))
    /\ UNCHANGED <<fs, loader, agentVars>>
CreateLlm ==
    /\ LoadedBy("load_llm_config")
    /\ \E outcome \in VendorOutcomes :
        Record(ProviderCall("create_llm", ret.value[1], outcome),
               create_llm(ret.value[1], outcome))
    /\ UNCHANGED <<fs, loader, agentVars>>

NextProvider ==
    \/ LoadTtsConfig \/ LoadSttConfig \/ LoadLlmConfig
    \/ CreateTts \/ CreateStt \/ CreateLlm
    \/ DropResult
SpecProvider == InitProvider /\ [][NextProvider]_vars

(***************************************************************************)
(* Claims on the provider loaders and the factory.                         *)
(***************************************************************************)
\* The numeric variables of the environment are unset, empty where the
\* loader skips an empty value, or spell a number.
FloatVars == {"TTS_SPEAKING_RATE", "LLM_TEMPERATURE"}
OptionalFloatVars ==
    {"TTS_ELEVENLABS_STABILITY", "TTS_ELEVENLABS_SIMILARITY_BOOST", "TTS_ELEVENLABS_STYLE"}
WellFormed(e) ==
    /\ \A v \in FloatVars : e[v] # JNull => float(e[v]) # Invalid
    /\ \A v \in OptionalFloatVars : (e[v] # JNull /\ e[v].s # "") => float(e[v]) # Invalid
    /\ e["LLM_MAX_REMOTE_CALLS"] # JNull => int(e["LLM_MAX_REMOTE_CALLS"]) # Invalid
    /\ (e["LLM_OPENAI_MAX_TOKENS"] # JNull /\ e["LLM_OPENAI_MAX_TOKENS"].s # "")
            => int(e["LLM_OPENAI_MAX_TOKENS"]) # Invalid
\* The enumeration member whose value equals the lower-cased string, else
\* GOOGLE; GOOGLE when the variable is unset.
MemberFor(members, value) ==
    IF value # JNull /\ \E m \in members : m = Lower(value.s)
    THEN CHOOSE m \in members : m = Lower(value.s)
    ELSE GOOGLE

\* C12: for each capability and every value of its *_PROVIDER variable (the
\* other variables unset or well-formed) the loader returns a configuration
\* and raises nothing; its provider is the enumeration member whose value
\* equals the lower-cased string, and GOOGLE when there is none or the
\* variable is unset.
C12_ProviderFallback ==
    WellFormed(env) =>
        /\ call.op = "load_tts_config" =>
            /\ ret.status = "return" /\ ret.exc = NoExc
            /\ ret.value[1].provider = MemberFor(TTSProvider, env["TTS_PROVIDER"])
        /\ call.op = "load_stt_config" =>
            /\ ret.status = "return" /\ ret.exc = NoExc
            /\ ret.value[1].provider = MemberFor(STTProvider, env["STT_PROVIDER"])
        /\ call.op = "load_llm_config" =>
            /\ ret.status = "return" /\ ret.exc = NoExc
            /\ ret.value[1].provider = MemberFor(LLMProvider, env["LLM_PROVIDER"])
\* LLM_PROVIDER=Azure: the loader warned and returned a Google configuration.
C12_Witness ==
    /\ call.op = "load_llm_config"
    /\ env["LLM_PROVIDER"] = JStr("Azure")
    /\ ret.status = "return"
    /\ ret.value[1].provider = GOOGLE
    /\ \E i \in 1..Len(log) : log[i].level = "warning"

\* The provider-specific optional parameters: the vendor constructor that
\* takes each, its keyword, and the environment variable that provides it.
OptionalParameters ==
    {<<"elevenlabs.VoiceSettings", "stability", "TTS_ELEVENLABS_STABILITY">>,
     <<"elevenlabs.VoiceSettings", "similarity_boost", "TTS_ELEVENLABS_SIMILARITY_BOOST">>,
     <<"elevenlabs.VoiceSettings", "style", "TTS_ELEVENLABS_STYLE">>,
     <<"elevenlabs.VoiceSettings", "speed", "TTS_SPEAKING_RATE">>,
     <<"elevenlabs.VoiceSettings", "use_speaker_boost", "TTS_ELEVENLABS_USE_SPEAKER_BOOST">>,
     <<"deepgram.STT", "smart_format", "STT_DEEPGRAM_SMART_FORMAT">>,
     <<"deepgram.STT", "interim_results", "STT_DEEPGRAM_INTERIM_RESULTS">>,
     <<"openai.LLM", "max_tokens", "LLM_OPENAI_MAX_TOKENS">>}
\* A constructor invocation passes the keyword.
Passes(invocation, keyword) ==
    \E i \in 1..Len(invocation.args) : invocation.args[i].k = keyword
FactoryCall == call.op \in {"create_tts", "create_stt", "create_llm"}

\* C13: every provider-specific optional parameter that is not present in
\* the environment is omitted from the vendor constructor call, not replaced
\* by a default this code chooses: a constructor invocation of the factory
\* passes such a parameter only when its variable is set.
C13_OptionalOmitted ==
    FactoryCall =>
        \A i \in 1..Len(ctor) : \A p \in OptionalParameters :
            (ctor[i].fn = p[1] /\ Passes(ctor[i], p[2])) => env[p[3]] # JNull

\* The vendor constructor a factory method is to use for a provider.
VendorFor(op, provider) ==
    CASE op = "create_tts" -> (IF provider = "elevenlabs" THEN "elevenlabs.TTS" ELSE "google.TTS")
      [] op = "create_stt" -> (IF provider = "deepgram" THEN "deepgram.STT" ELSE "google.STT")
      [] op = "create_llm" -> (IF provider = "openai" THEN "openai.LLM" ELSE "google.LLM")
ClientConstructors ==
    {"google.TTS", "elevenlabs.TTS", "google.STT", "deepgram.STT", "google.LLM", "openai.LLM"}
\* The client constructor invocations among a sequence of invocations.
ClientInvocations(invocations) ==
    SelectSeq(invocations, LAMBDA c : c.fn \in ClientConstructors)

\* C14: create_tts, create_stt and create_llm invoke the vendor constructor
\* selected by config.provider exactly once per call, and no other vendor's;
\* when that constructor raises, the same exception reaches the caller and
\* nothing is returned; when it returns, its client is the result.
C14_SingleConstruction ==
    FactoryCall =>
        /\ Len(ClientInvocations(ctor)) = 1
        /\ ClientInvocations(ctor)[1].fn = VendorFor(call.op, call.cfg.provider)
        /\ call.outcome # NoExc =>
            /\ ret.status = "raise"
            /\ ret.exc = call.outcome
            /\ ret.value = <<>>
        /\ call.outcome = NoExc =>
            /\ ret.status = "return"
            /\ ret.exc = NoExc
            /\ ret.value = <<Client(VendorFor(call.op, call.cfg.provider),
                                    ClientInvocations(ctor)[1].args)>>
\* The ElevenLabs constructor raised and create_tts raised the same exception.
C14_Witness ==
    /\ call.op = "create_tts"
    /\ call.cfg.provider = "elevenlabs"
    /\ call.outcome = RuntimeError(<<"connection refused">>)
    /\ ret.status = "raise"
    /\ ret.exc = call.outcome
    /\ Len(ClientInvocations(ctor)) = 1

(***************************************************************************)
(* Provider-specific settings and default models.                          *)
(***************************************************************************)
ElevenLabsFields ==
    {"voice_id", "model_id", "stability", "similarity_boost", "style", "speed",
     "use_speaker_boost"}
FieldOf(config, field) ==
    CASE field = "voice_id" -> config.voice_id
      [] field = "model_id" -> config.model_id
      [] field = "stability" -> config.stability
      [] field = "similarity_boost" -> config.similarity_boost
      [] field = "style" -> config.style
      [] field = "speed" -> config.speed
      [] field = "use_speaker_boost" -> config.use_speaker_boost

\* C29: provider-specific settings are loaded only for the selected
\* provider, whatever the other provider's variables hold: a TTS
\* configuration with provider GOOGLE has every ElevenLabs field None and one
\* with ELEVENLABS has voice_name and voice_gender None; an STT configuration
\* with GOOGLE has smart_format and interim_results None; an LLM
\* configuration with GOOGLE has max_tokens None.
C29_SelectedProviderOnly ==
    /\ LoadedBy("load_tts_config") =>
        /\ ret.value[1].provider = GOOGLE =>
            \A field \in ElevenLabsFields : FieldOf(ret.value[1], field) = JNull
        /\ ret.value[1].provider = "elevenlabs" =>
            /\ ret.value[1].voice_name = JNull
            /\ ret.value[1].voice_gender = JNull
    /\ LoadedBy("load_stt_config") =>
        (ret.value[1].provider = GOOGLE =>
            /\ ret.value[1].smart_format = JNull
            /\ ret.value[1].interim_results = JNull)
    /\ LoadedBy("load_llm_config") =>
        (ret.value[1].provider = GOOGLE => ret.value[1].max_tokens = JNull)
\* LLM_OPENAI_MAX_TOKENS spells a number, the provider resolved to GOOGLE
\* and the loaded configuration has no max_tokens.
C29_Witness ==
    /\ LoadedBy("load_llm_config")
    /\ env["LLM_OPENAI_MAX_TOKENS"] = JStr(" 256 ")
    /\ ret.value[1].provider = GOOGLE
    /\ ret.value[1].max_tokens = JNull

\* C30: the default model follows the resolved provider: with STT_MODEL
\* unset the STT model is "latest_long" for GOOGLE and "nova-2" for DEEPGRAM,
\* with LLM_MODEL unset the LLM model is "gemini-2.5-flash" for GOOGLE and
\* "gpt-4o-mini" for OPENAI; a provider name no enumeration knows gets the
\* GOOGLE defaults; a set STT_MODEL or LLM_MODEL is the model, unchanged, for
\* every provider.
C30_DefaultModel ==
    /\ LoadedBy("load_stt_config") =>
        /\ env["STT_MODEL"] # JNull => ret.value[1].model = env["STT_MODEL"]
        /\ env["STT_MODEL"] = JNull =>
            /\ ret.value[1].provider = GOOGLE => ret.value[1].model = JStr("latest_long")
            /\ ret.value[1].provider = "deepgram" => ret.value[1].model = JStr("nova-2")
            /\ provider_name(env, "STT_PROVIDER") \notin STTProvider =>
                    ret.value[1].model = JStr("latest_long")
    /\ LoadedBy("load_llm_config") =>
        /\ env["LLM_MODEL"] # JNull => ret.value[1].model = env["LLM_MODEL"]
        /\ env["LLM_MODEL"] = JNull =>
            /\ ret.value[1].provider = GOOGLE => ret.value[1].model = JStr("gemini-2.5-flash")
            /\ ret.value[1].provider = "openai" => ret.value[1].model = JStr("gpt-4o-mini")
            /\ provider_name(env, "LLM_PROVIDER") \notin LLMProvider =>
                    ret.value[1].model = JStr("gemini-2.5-flash")
\* STT_PROVIDER=azure with STT_MODEL unset: the model is Google's default.
C30_Witness ==
    /\ LoadedBy("load_stt_config")
    /\ env["STT_PROVIDER"] = JStr("azure")
    /\ env["STT_MODEL"] = JNull
    /\ ret.value[1].provider = GOOGLE
    /\ ret.value[1].model = JStr("latest_long")

(***************************************************************************)
(* Part 3: src/homey_assistant/agent/session.py                            *)
(*                                                                         *)
(* SessionManager.  `faults` says what each constructor of the framework   *)
(* and of the vendors does when it is called: NoExc when it returns, else  *)
(* the exception it raises.                                                *)
(***************************************************************************)
SessionConstructors ==
    {"google.STT", "google.TTS", "google.LLM", "AgentSession",
     "noise_cancellation.BVC", "RoomInputOptions"}

\* SessionManager(max_tool_steps=..., stt_languages=..., video_enabled=...),
\* the other parameters at their defaults (constants.py).
SessionManager(max_tool_steps, stt_languages, video_enabled) ==
    [max_tool_steps |-> max_tool_steps,
     temperature |-> PyFloat("0.7"),
     maximum_remote_calls |-> JNum("100"),
     language |-> JStr("pl-PL"),
     voice_name |-> JStr("pl-PL-Chirp3-HD-Despina"),
     voice_gender |-> JStr("female"),
     speaking_rate |-> PyFloat("1.15"),
     stt_model |-> JStr("latest_long"),
     stt_languages |-> IF Truthy(stt_languages) THEN stt_languages ELSE JList(<<JStr("pl-PL")>>),
     stt_punctuate |-> JBool(FALSE),
     llm_model |-> JStr("gemini-2.5-flash"),
     video_enabled |-> video_enabled]
DEFAULT_MAX_TOOL_STEPS == JNum("20")
DEFAULT_VIDEO_ENABLED == JBool(FALSE)

\* try: debug; x = vendor(**kwargs); debug; return x
\* except Exception as e: logger.error(f"Failed to <what>: {e}"); raise
Configured(what, before, after, made) ==
    IF made.status = "return"
    THEN Returned(made.value,
            <<LogRecord("debug", before)>> \o made.log \o <<LogRecord("debug", <<after>>)>>,
            made.ctor)
    ELSE Raised(made.exc,
            <<LogRecord("debug", before)>> \o made.log
            \o <<LogRecord("error", <<"Failed to ", what, ": ">> \o made.exc.msg)>>,
            made.ctor)

_configure_stt(self, faults) ==
    Configured("configure STT",
        <<"Configuring STT with model: ", self.stt_model.s, ", languages: ",
          PyStr(self.stt_languages)>>,
        "STT configured successfully",
        Construction("google.STT",
            <<Member("model", self.stt_model), Member("languages", self.stt_languages),
              Member("punctuate", self.stt_punctuate)>>,
            faults["google.STT"], <<>>))

_configure_tts(self, faults) ==
    Configured("configure TTS",
        <<"Configuring TTS with voice: ", self.voice_name.s, ", language: ", self.language.s>>,
        "TTS configured successfully",
        Construction("google.TTS",
            <<Member("gender", self.voice_gender), Member("voice_name", self.voice_name),
              Member("language", self.language), Member("speaking_rate", self.speaking_rate)>>,
            faults["google.TTS"], <<>>))

_configure_llm(self, faults) ==
    Configured("configure LLM",
        <<"Configuring LLM with model: ", self.llm_model.s, ", temperature: ",
          self.temperature.s>>,
        "LLM configured successfully",
        Construction("google.LLM",
            <<Member("model", self.llm_model), Member("temperature", self.temperature),
              Member("automatic_function_calling_config",
                     JObj(<<Member("maximum_remote_calls", self.maximum_remote_calls)>>))>>,
            faults["google.LLM"], <<>>))

\* The keyword arguments of AgentSession(...), evaluated left to right: the
\* first _configure_* that raises ends the evaluation.
session_arguments(self, mcp_servers, vad, faults) ==
    LET stt == _configure_stt(self, faults)
        tts == _configure_tts(self, faults)
        llm == _configure_llm(self, faults)
    IN
    IF stt.status = "raise" THEN stt
    ELSE IF tts.status = "raise"
    THEN Raised(tts.exc, stt.log \o tts.log, stt.ctor \o tts.ctor)
    ELSE IF llm.status = "raise"
    THEN Raised(llm.exc, stt.log \o tts.log \o llm.log, stt.ctor \o tts.ctor \o llm.ctor)
    ELSE Returned(
            <<Member("max_tool_steps", self.max_tool_steps), Member("vad", vad),
              Member("stt", stt.value[1]), Member("tts", tts.value[1]),
              Member("llm", llm.value[1]), Member("mcp_servers", mcp_servers)>>,
            stt.log \o tts.log \o llm.log, stt.ctor \o tts.ctor \o llm.ctor)

\* Mutant: the exception is logged and None is returned.
create_session_swallow(self, mcp_servers, vad, faults) ==
    LET arguments == session_arguments(self, mcp_servers, vad, faults)
        made == IF arguments.status = "raise" THEN arguments
                ELSE Construction("AgentSession", arguments.value, faults["AgentSession"],
                                  arguments.ctor)
    IN IF made.status = "return" THEN Returned(made.value, arguments.log, made.ctor)
       ELSE Returned(<<JNull>>,
                arguments.log \o
                <<LogRecord("error", <<"Failed to create agent session: ">> \o made.exc.msg)>>,
                made.ctor)

\* Mutant: the servers are handed over in reverse order.
create_session_reversed(self, mcp_servers, vad, faults) ==
    LET n == Len(mcp_servers.items)
        arguments == session_arguments(self,
                        JList([i \in 1..n |-> mcp_servers.items[n + 1 - i]]), vad, faults)
    IN IF arguments.status = "raise" THEN arguments
       ELSE Construction("AgentSession", arguments.value, faults["AgentSession"], arguments.ctor)

create_session(self, mcp_servers, vad, faults) ==
    LET arguments == session_arguments(self, mcp_servers, vad, faults)
        made == IF arguments.status = "raise" THEN arguments
                ELSE Construction("AgentSession", arguments.value, faults["AgentSession"],
                                  arguments.ctor)
        begun == <<LogRecord("info", <<"Creating agent session with ",
                                       DecStr(Len(mcp_servers.items)), " MCP servers">>)>>
                 \o arguments.log
    IN IF made.status = "return"
       THEN Returned(made.value,
                begun \o <<LogRecord("info", <<"Agent session created successfully">>)>>,
                made.ctor)
       ELSE Raised(made.exc,
                begun \o
                <<LogRecord("error", <<"Failed to create agent session: ">> \o made.exc.msg)>>,
                made.ctor)

create_room_input_options(self, faults) ==
    LET bvc == Construction("noise_cancellation.BVC", <<>>, faults["noise_cancellation.BVC"], <<>>)
        options == IF bvc.status = "raise" THEN bvc
                   ELSE Construction("RoomInputOptions",
                            <<Member("video_enabled", self.video_enabled),
                              Member("noise_cancellation", bvc.value[1])>>,
                            faults["RoomInputOptions"], bvc.ctor)
    IN Configured("create room input options",
            <<"Creating room input options with video_enabled: ", PyStr(self.video_enabled)>>,
            "Room input options created successfully",
            options)

(***************************************************************************)
(* The session manager called on its own, as its unit tests call it.       *)
(***************************************************************************)
\* The managers: the default one, and one with its own step limit, languages
\* and video setting.
Managers ==
    {SessionManager(DEFAULT_MAX_TOOL_STEPS, JNull, DEFAULT_VIDEO_ENABLED),
     SessionManager(JNum("5"), JList(<<JStr("en-US"), JStr("pl-PL")>>), JBool(TRUE))}
\* The vad argument: None (omitted) or the loaded detector.
SileroVAD == [t |-> "VAD", s |-> "silero", items |-> <<>>]
VadArgs == {JNull, SileroVAD}
\* The mcp_servers argument: lists of descriptors.
ServerLists ==
    {JList(ds) : ds \in SeqUpTo({MCPServerHTTP(GoodUrl), MCPServerStdio(GoodCommand, JList(<<>>))},
                                MaxServers)}
\* What the constructors do: all return, or some raise.
FaultArgs == [SessionConstructors -> VendorOutcomes]

SessionCall(op, self, mcp_servers, vad, faults) ==
    [op |-> op, name |-> "", cfg |-> JNull, file |-> AbsentFile, vanished |-> FALSE,
     self |-> self, mcp_servers |-> mcp_servers, vad |-> vad, faults |-> faults]

InitSession ==
    /\ env = NoEnv
    /\ loader = MCPConfigLoader(JNull)
    /\ fs = [p \in Paths |-> AbsentFile]
    /\ call = NoCall
    /\ ret = NoRet
    /\ log = <<>>
    /\ ctor = <<>>
    /\ proc = NoProc
    /\ job = NoJob
    /\ NoObjects

CreateSession ==
    /\ Idle
    /\ \E self \in Managers, mcp_servers \in ServerLists, vad \in VadArgs, faults \in FaultArgs :
        /\ faults["noise_cancellation.BVC"] = NoExc
        /\ faults["RoomInputOptions"] = NoExc
        /\ Record(SessionCall("create_session", self, mcp_servers, vad, faults),
                  create_session(self, mcp_servers, vad, faults))
    /\ UNCHANGED <<fs, loader, agentVars>>

CreateRoomInputOptions ==
    /\ Idle
    /\ \E self \in Managers, faults \in FaultArgs :
        /\ \A c \in {"google.STT", "google.TTS", "google.LLM", "AgentSession"} : faults[c] = NoExc
        /\ Record(SessionCall("create_room_input_options", self, JList(<<>>), JNull, faults),
                  create_room_input_options(self, faults))
    /\ UNCHANGED <<fs, loader, agentVars>>

NextSession == CreateSession \/ CreateRoomInputOptions \/ DropResult
SpecSession == InitSession /\ [][NextSession]_vars

(***************************************************************************)
(* Claims on the session manager.                                          *)
(***************************************************************************)
\* The invocations of one constructor among those of the call.
InvocationsOf(function) == SelectSeq(ctor, LAMBDA c : c.fn = function)
\* The constructors create_session reaches, in the order it calls them, and
\* the first of them that raises (0 when none does).
SessionOrder == <<"google.STT", "google.TTS", "google.LLM", "AgentSession">>
RoomOrder == <<"noise_cancellation.BVC", "RoomInputOptions">>
FirstFault(order, faults) ==
    IF \E i \in 1..Len(order) : faults[order[i]] # NoExc
    THEN CHOOSE i \in 1..Len(order) :
            /\ faults[order[i]] # NoExc
            /\ \A j \in 1..(i - 1) : faults[order[j]] = NoExc
    ELSE 0

\* C19: create_session builds exactly one AgentSession, passing the
\* manager's max_tool_steps, the given vad (None when omitted), the STT, TTS
\* and LLM clients it configured and the given mcp_servers, same elements in
\* the same order, and returns that session.
C19_SessionAssembly ==
    call.op = "create_session" =>
        /\ Len(InvocationsOf("AgentSession")) <= 1
        /\ FirstFault(SessionOrder, call.faults) = 0 =>
            /\ Len(InvocationsOf("AgentSession")) = 1
            /\ Len(InvocationsOf("google.STT")) = 1
            /\ Len(InvocationsOf("google.TTS")) = 1
            /\ Len(InvocationsOf("google.LLM")) = 1
            /\ InvocationsOf("AgentSession")[1].args =
                <<Member("max_tool_steps", call.self.max_tool_steps),
                  Member("vad", call.vad),
                  Member("stt", Client("google.STT", InvocationsOf("google.STT")[1].args)),
                  Member("tts", Client("google.TTS", InvocationsOf("google.TTS")[1].args)),
                  Member("llm", Client("google.LLM", InvocationsOf("google.LLM")[1].args)),
                  Member("mcp_servers", call.mcp_servers)>>
            /\ ret.status = "return"
            /\ ret.value = <<Client("AgentSession", InvocationsOf("AgentSession")[1].args)>>
\* A session built without vad over an HTTP and a stdio server, in that order.
C19_Witness ==
    /\ call.op = "create_session"
    /\ call.vad = JNull
    /\ call.mcp_servers = JList(<<MCPServerHTTP(GoodUrl), MCPServerStdio(GoodCommand, JList(<<>>))>>)
    /\ call.self.max_tool_steps = JNum("5")
    /\ ret.status = "return"
    /\ ret.value[1].vendor = "AgentSession"

\* C20: when constructing the STT, TTS or LLM client, the room input options
\* or the AgentSession raises, the manager logs the failure (at level error)
\* and raises the same exception; create_session returns no session, and a
\* failure of the AgentSession constructor is logged as
\* "Failed to create agent session: <message>".
C20_FailurePropagation ==
    /\ call.op = "create_session" =>
        LET f == FirstFault(SessionOrder, call.faults) IN
        f # 0 =>
            /\ ret.status = "raise"
            /\ ret.exc = call.faults[SessionOrder[f]]
            /\ ret.value = <<>>
            /\ InvocationsOf("AgentSession") = IF f = 4 THEN <<ctor[Len(ctor)]>> ELSE <<>>
            /\ log[Len(log)] =
                LogRecord("error", <<"Failed to create agent session: ">> \o ret.exc.msg)
            /\ f = 1 => \E i \in 1..Len(log) :
                log[i] = LogRecord("error", <<"Failed to ", "configure STT", ": ">> \o ret.exc.msg)
            /\ f = 2 => \E i \in 1..Len(log) :
                log[i] = LogRecord("error", <<"Failed to ", "configure TTS", ": ">> \o ret.exc.msg)
            /\ f = 3 => \E i \in 1..Len(log) :
                log[i] = LogRecord("error", <<"Failed to ", "configure LLM", ": ">> \o ret.exc.msg)
    /\ call.op = "create_room_input_options" =>
        LET f == FirstFault(RoomOrder, call.faults) IN
        f # 0 =>
            /\ ret.status = "raise"
            /\ ret.exc = call.faults[RoomOrder[f]]
            /\ ret.value = <<>>
            /\ log[Len(log)] =
                LogRecord("error", <<"Failed to ", "create room input options", ": ">>
                                   \o ret.exc.msg)
\* The AgentSession constructor raised after the three clients were built.
C20_Witness ==
    /\ call.op = "create_session"
    /\ FirstFault(SessionOrder, call.faults) = 4
    /\ ret.status = "raise"
    /\ ret.exc = RuntimeError(<<"connection refused">>)
    /\ log[Len(log)].msg = <<"Failed to create agent session: ", "connection refused">>

(***************************************************************************)
(* src/main.py: prewarm and entrypoint.                                    *)
(***************************************************************************)
AgentConstructors == SessionConstructors \cup {"HomeyAssistant"}
PlatformError == RuntimeError(<<"connection refused">>)

\* Mutant: prewarm without its outer try/except.
prewarm_body_unguarded(loading, loaded) ==
    LET begun == <<LogRecord("info", <<"Starting agent prewarm process">>),
                   LogRecord("debug", <<"Loading VAD model">>)>>
        reading == <<LogRecord("debug", <<"VAD model loaded successfully">>),
                     LogRecord("debug", <<"Loading MCP server configurations">>)>>
        done == <<LogRecord("info", <<"Agent prewarm completed successfully">>)>>
    IN
    IF loading # NoExc
    THEN [userdata |-> [vad |-> Absent, mcp_servers |-> Absent],
          log |-> begun, ctor |-> <<>>, loads |-> 0, exc |-> loading]
    ELSE IF loaded.status = "return"
    THEN [userdata |-> [vad |-> SileroVAD, mcp_servers |-> JList(loaded.value)],
          log |-> begun \o reading \o loaded.log
                  \o <<LogRecord("info", <<"Loaded ", DecStr(Len(loaded.value)), " MCP servers">>)>>
                  \o done,
          ctor |-> loaded.ctor, loads |-> 1, exc |-> NoExc]
    ELSE [userdata |-> [vad |-> SileroVAD, mcp_servers |-> JList(<<>>)],
          log |-> begun \o reading \o loaded.log
                  \o <<LogRecord("error",
                        <<IF loaded.exc.type = "MCPConfigurationError"
                          THEN "MCP configuration error: "
                          ELSE "Unexpected error loading MCP servers: ">> \o loaded.exc.msg)>>
                  \o done,
          ctor |-> loaded.ctor, loads |-> 1, exc |-> NoExc]

\* Lines 37-65 of prewarm, given what silero.VAD.load() did (`loading`) and
\* the outcome of config_loader.load_servers() (`loaded`): what is stored in
\* proc.userdata (Absent: the key was not stored), what is logged, and the
\* exception that leaves prewarm (NoExc: it returns).
prewarm_body(loading, loaded) ==
    LET begun == <<LogRecord("info", <<"Starting agent prewarm process">>),
                   LogRecord("debug", <<"Loading VAD model">>)>>
        reading == <<LogRecord("debug", <<"VAD model loaded successfully">>),
                     LogRecord("debug", <<"Loading MCP server configurations">>)>>
        done == <<LogRecord("info", <<"Agent prewarm completed successfully">>)>>
    IN
    IF loading # NoExc
    THEN [userdata |-> [vad |-> JNull, mcp_servers |-> JList(<<>>)],
          log |-> begun \o <<LogRecord("error", <<"Error during agent prewarm: ">> \o loading.msg)>>,
          ctor |-> <<>>, loads |-> 0, exc |-> NoExc]
    ELSE IF loaded.status = "return"
    THEN [userdata |-> [vad |-> SileroVAD, mcp_servers |-> JList(loaded.value)],
          log |-> begun \o reading \o loaded.log
                  \o <<LogRecord("info", <<"Loaded ", DecStr(Len(loaded.value)), " MCP servers">>)>>
                  \o done,
          ctor |-> loaded.ctor, loads |-> 1, exc |-> NoExc]
    ELSE [userdata |-> [vad |-> SileroVAD, mcp_servers |-> JList(<<>>)],
          log |-> begun \o reading \o loaded.log
                  \o <<LogRecord("error",
                        <<IF loaded.exc.type = "MCPConfigurationError"
                          THEN "MCP configuration error: "
                          ELSE "Unexpected error loading MCP servers: ">> \o loaded.exc.msg)>>
                  \o done,
          ctor |-> loaded.ctor, loads |-> 1, exc |-> NoExc]

\* prewarm(proc): what it stores in proc.userdata, what it logs and how many
\* times it calls load_servers.  `loading` is what silero.VAD.load() does.
prewarm(file, loading, vanishes) ==
    prewarm_body(loading, load_servers(MCPConfigLoader(JNull).config_path, file, vanishes))

\* Mutant: the entrypoint loads the configuration file again.
preloaded_reload(p, file) == prewarm(file, NoExc, FALSE).userdata

\* ctx.proc.userdata, as the entrypoint finds it; `file` is the configuration
\* file at that time, which the entrypoint does not read.
preloaded(p, file) == p.userdata

\* userdata.get(key, default)
UserdataGet(value, default) == IF value = Absent THEN default ELSE value

\* Lines 80-96, given the outcomes of create_session, of
\* create_room_input_options and of HomeyAssistant(): the first that raised
\* ends the sequence.
configure_body(mcp_servers, session, room_input_options, assistant) ==
    LET begun == <<LogRecord("info", <<"Starting agent entrypoint">>),
                   LogRecord("info", <<"Creating session with ",
                                       DecStr(Len(mcp_servers.items)), " MCP servers">>),
                   LogRecord("info", <<"SessionManager initialized with configuration">>)>>
    IN
    IF session.status = "raise"
    THEN Raised(session.exc, begun \o session.log, session.ctor)
    ELSE IF room_input_options.status = "raise"
    THEN Raised(room_input_options.exc, begun \o session.log \o room_input_options.log,
                session.ctor \o room_input_options.ctor)
    ELSE IF assistant.status = "raise"
    THEN Raised(assistant.exc, begun \o session.log \o room_input_options.log,
                session.ctor \o room_input_options.ctor \o assistant.ctor)
    ELSE Returned(<<session.value[1], room_input_options.value[1], assistant.value[1]>>,
                  begun \o session.log \o room_input_options.log,
                  session.ctor \o room_input_options.ctor \o assistant.ctor)

\* Lines 80-96: the entrypoint up to its first await.  Returns the session,
\* the room input options and the assistant, or raises what the first
\* failing constructor raised.
configure(userdata, faults) ==
    configure_body(
        UserdataGet(userdata.mcp_servers, JList(<<>>)),
        create_session(SessionManager(DEFAULT_MAX_TOOL_STEPS, JNull, DEFAULT_VIDEO_ENABLED),
                       UserdataGet(userdata.mcp_servers, JList(<<>>)),
                       UserdataGet(userdata.vad, JNull), faults),
        create_room_input_options(
            SessionManager(DEFAULT_MAX_TOOL_STEPS, JNull, DEFAULT_VIDEO_ENABLED), faults),
        Construction("HomeyAssistant", <<>>, faults["HomeyAssistant"], <<>>))

\* Mutant: ctx.connect() is awaited before session.start().
entrypoint_awaits_connect_first == <<"ctx.connect", "session.start", "session.generate_reply">>

\* Lines 100-112: the operations the entrypoint awaits, in program order.
entrypoint_awaits == <<"session.start", "ctx.connect", "session.generate_reply">>

\* Where the invocation stands once an awaited operation has returned.
StateAfter(op) ==
    CASE op = "session.start" -> "SessionStarted"
      [] op = "ctx.connect" -> "Connected"
      [] op = "session.generate_reply" -> "GreetingIssued"
\* The logger.info that precedes an awaited operation, and the one after the last.
Announcement(op) ==
    CASE op = "session.start" -> "Starting agent session"
      [] op = "ctx.connect" -> "Connecting to room"
      [] op = "session.generate_reply" -> "Generating initial greeting"
Completion(op) ==
    IF op = "session.generate_reply"
    THEN <<LogRecord("info", <<"Agent session started successfully">>)>> ELSE <<>>

\* The arguments of an awaited operation.
Room == [t |-> "Room", s |-> "", items |-> <<>>]
DEFAULT_GREETING_INSTRUCTIONS == JStr("<greeting instructions>")
AwaitArguments(j, op) ==
    CASE op = "session.start" ->
            <<Member("room", Room), Member("agent", j.assistant),
              Member("room_input_options", j.options)>>
      [] op = "ctx.connect" -> <<>>
      [] op = "session.generate_reply" -> <<Member("instructions", DEFAULT_GREETING_INSTRUCTIONS)>>
PlatformCall(op, arguments, outcome) == [op |-> op, args |-> arguments, outcome |-> outcome]

\* Mutant: the exception is logged and the entrypoint carries on.
on_error_resume(j, op, e) ==
    [j EXCEPT !.pc = IF op = "configure" THEN "Configured" ELSE StateAfter(op)]

\* Lines 116-118: except Exception as e: logger.error(...); raise
on_error(j, op, e) == [j EXCEPT !.pc = "Failed", !.exc = e]
ErrorRecord(e) == LogRecord("error", <<"Error in agent entrypoint: ">> \o e.msg)

(***************************************************************************)
(* The worker process: prewarm once, then entrypoint invocations.          *)
(***************************************************************************)
\* The configuration file prewarm may find, and what it may be replaced by.
AgentFiles ==
    {AbsentFile, GarbageFile, UndecodableFile,
     JsonFile(ServersDoc(<<"a">>, <<EntryOf(JStr("bogus"), Absent, Absent, Absent)>>)),
     JsonFile(ServersDoc(<<ServerName(1), ServerName(2)>>,
                <<EntryOf(JStr("http"), GoodUrl, Absent, Absent),
                  EntryOf(JStr("stdio"), Absent, GoodCommand, Absent)>>)),
     JsonFile(ServersDoc(<<ServerName(1)>>,
                <<EntryOf(JStr("stdio"), Absent, GoodCommand, JList(<<JStr("-m")>>))>>))}
\* The provider variables of the worker's environment.
AgentEnvs ==
    {NoEnv,
     Set(NoEnv, "TTS_PROVIDER", JStr("elevenlabs")),
     Set(NoEnv, "STT_PROVIDER", JStr("deepgram")),
     Set(NoEnv, "LLM_PROVIDER", JStr("OpenAI")),
     [NoEnv EXCEPT !["TTS_PROVIDER"] = JStr("google"), !["STT_PROVIDER"] = JStr("google"),
                   !["LLM_PROVIDER"] = JStr("google")]}
\* What the constructors do during one invocation: at most one of them raises.
AgentFaults ==
    {[c \in AgentConstructors |-> NoExc]}
    \cup {[c \in AgentConstructors |-> IF c = bad THEN PlatformError ELSE NoExc] :
            bad \in AgentConstructors}
\* What an awaited platform operation does.
PlatformOutcomes == {NoExc, PlatformError, ValueError(<<"room closed">>)}
\* The invocation in progress, with what its constructors do.
EntrypointCall(faults) ==
    [op |-> "entrypoint", name |-> "", cfg |-> JNull, file |-> AbsentFile, vanished |-> FALSE,
     faults |-> faults]

\* prewarm(proc), with the file it found, whether the file vanished while it
\* ran, and what silero.VAD.load() did.
PrewarmCall(file, loading, vanishes) ==
    [op |-> "prewarm", name |-> "", cfg |-> JNull, file |-> file, vanished |-> vanishes,
     loading |-> loading]

InitAgent ==
    /\ env \in AgentEnvs
    /\ \E f \in AgentFiles : fs = [p \in Paths |-> IF p = DEFAULT_MCP_CONFIG_PATH THEN f ELSE AbsentFile]
    /\ loader = MCPConfigLoader(JNull)
    /\ call = NoCall
    /\ ret = NoRet
    /\ log = <<>>
    /\ ctor = <<>>
    /\ proc = NoProc
    /\ job = NoJob
    /\ NoObjects

\* prewarm has run: the process holds what it stored.
Warm(done) ==
    /\ proc' = [warm |-> TRUE, userdata |-> done.userdata, loads |-> proc.loads + done.loads]
    /\ ret' = IF done.exc = NoExc
              THEN [status |-> "return", value |-> <<JNull>>, exc |-> NoExc]
              ELSE [status |-> "raise", value |-> <<>>, exc |-> done.exc]
    /\ log' = done.log
    /\ ctor' = done.ctor

\* The framework warms the process up: prewarm(proc).
Prewarm ==
    /\ ~proc.warm
    /\ \E loading \in {NoExc, PlatformError}, vanishes \in BOOLEAN :
        /\ vanishes => (loading = NoExc /\ Exists(fs[DEFAULT_MCP_CONFIG_PATH]))
        /\ call' = PrewarmCall(fs[DEFAULT_MCP_CONFIG_PATH], loading, vanishes)
        /\ Warm(prewarm(fs[DEFAULT_MCP_CONFIG_PATH], loading, vanishes))
        /\ fs' = IF vanishes THEN [fs EXCEPT ![DEFAULT_MCP_CONFIG_PATH] = AbsentFile] ELSE fs
    /\ UNCHANGED <<loader, env, job, utilVars>>

\* The environment replaces the configuration file of a warm process.
RewriteFile ==
    /\ proc.warm
    /\ job.pc \in {"none", "GreetingIssued", "Failed"}
    /\ \E f \in AgentFiles :
        /\ f # fs[DEFAULT_MCP_CONFIG_PATH]
        /\ fs' = [fs EXCEPT ![DEFAULT_MCP_CONFIG_PATH] = f]
    /\ UNCHANGED <<loader, call, ret, log, ctor, env, proc, job, utilVars>>

\* The framework assigns a job to the warm process: entrypoint(ctx) is called.
StartJob ==
    /\ proc.warm
    /\ job.pc \in {"none", "GreetingIssued", "Failed"}
    /\ job.n < MaxJobs
    /\ job' = [NoJob EXCEPT !.pc = "Uninitialized", !.n = job.n + 1]
    /\ call' = NoCall
    /\ log' = <<>>
    /\ ctor' = <<>>
    /\ UNCHANGED <<fs, loader, ret, env, proc, utilVars>>

\* The synchronous part of the entrypoint is over: the invocation holds what
\* was built, or has failed.
Enter(built) ==
    /\ ctor' = built.ctor
    /\ IF built.status = "return"
       THEN /\ job' = [job EXCEPT !.pc = "Configured", !.session = built.value[1],
                                  !.options = built.value[2], !.assistant = built.value[3]]
            /\ log' = built.log
       ELSE /\ job' = on_error(job, "configure", built.exc)
            /\ log' = built.log \o <<ErrorRecord(built.exc)>>

\* The entrypoint builds the session, the room input options and the assistant.
Configure ==
    /\ job.pc = "Uninitialized"
    /\ \E faults \in AgentFaults :
        /\ call' = EntrypointCall(faults)
        /\ Enter(configure(preloaded(proc, fs[DEFAULT_MCP_CONFIG_PATH]), faults))
    /\ UNCHANGED <<fs, loader, ret, env, proc, utilVars>>

\* The entrypoint awaits the operation `op`, the next one of its program.
Await(op) ==
    /\ job.pc \in {"Configured", "SessionStarted", "Connected"}
    /\ Len(job.calls) < Len(entrypoint_awaits)
    /\ entrypoint_awaits[Len(job.calls) + 1] = op
    /\ \E outcome \in PlatformOutcomes :
        LET called == [job EXCEPT !.calls = Append(job.calls,
                                    PlatformCall(op, AwaitArguments(job, op), outcome))]
        IN IF outcome = NoExc
           THEN /\ job' = [called EXCEPT !.pc = StateAfter(op)]
                /\ log' = log \o <<LogRecord("info", <<Announcement(op)>>)>> \o Completion(op)
           ELSE /\ job' = on_error(called, op, outcome)
                /\ log' = log \o <<LogRecord("info", <<Announcement(op)>>), ErrorRecord(outcome)>>
    /\ UNCHANGED <<fs, loader, call, ret, ctor, env, proc, utilVars>>
StartSession == Await("session.start")
Connect == Await("ctx.connect")
GenerateReply == Await("session.generate_reply")

NextAgent ==
    \/ Prewarm \/ RewriteFile \/ StartJob \/ Configure
    \/ StartSession \/ Connect \/ GenerateReply
SpecAgent == InitAgent /\ [][NextAgent]_vars

(***************************************************************************)
(* Claims on the worker process.                                           *)
(***************************************************************************)
\* A keyword argument of a constructed object.
Argument(object, keyword) == DictGet([items |-> object.kwargs], keyword, JNull)
\* The invocation has built its session.
SessionBuilt == job.session # JNull

\* C15: the session's STT, TTS and LLM clients are those the provider
\* factory builds from the configuration loaded from the environment: the
\* vendor of each client is the one TTS_PROVIDER, STT_PROVIDER and
\* LLM_PROVIDER select.
C15_EnvSelectsVendors ==
    SessionBuilt =>
        /\ Argument(job.session, "stt").vendor
            = VendorFor("create_stt", MemberFor(STTProvider, env["STT_PROVIDER"]))
        /\ Argument(job.session, "tts").vendor
            = VendorFor("create_tts", MemberFor(TTSProvider, env["TTS_PROVIDER"]))
        /\ Argument(job.session, "llm").vendor
            = VendorFor("create_llm", MemberFor(LLMProvider, env["LLM_PROVIDER"]))

\* The states of an invocation, in the order of section 4.4; the model's
\* Connected (ctx.connect returned, the greeting not yet issued) is part of
\* SessionStarted.
Rank(pc) ==
    CASE pc = "Uninitialized" -> 0
      [] pc = "Configured" -> 1
      [] pc \in {"SessionStarted", "Connected"} -> 2
      [] pc = "GreetingIssued" -> 3
      [] OTHER -> 4
Running(j) == j.pc \in {"Uninitialized", "Configured", "SessionStarted", "Connected", "GreetingIssued"}
\* The positions of job.calls at which `op` was called, and whether a call of
\* `op` before position i has returned.
CallsOf(op) == {i \in 1..Len(job.calls) : job.calls[i].op = op}
ReturnedBefore(op, i) ==
    \E k \in 1..(i - 1) : job.calls[k].op = op /\ job.calls[k].outcome = NoExc
Built == job.session # JNull /\ job.options # JNull /\ job.assistant # JNull

\* C16: an invocation moves only forward through Uninitialized, Configured,
\* SessionStarted, GreetingIssued: session.start is called only once the
\* session, the room input options and the assistant are built, and with
\* them; ctx.connect only after session.start returned; generate_reply only
\* after ctx.connect returned; each is called at most once and no earlier
\* state is entered again.
C16_ForwardOnly ==
    /\ [](/\ \A i \in CallsOf("session.start") :
                /\ Built
                /\ job.calls[i].args = <<Member("room", Room), Member("agent", job.assistant),
                                         Member("room_input_options", job.options)>>
          /\ \A i \in CallsOf("ctx.connect") : ReturnedBefore("session.start", i)
          /\ \A i \in CallsOf("session.generate_reply") : ReturnedBefore("ctx.connect", i)
          /\ \A op \in {"session.start", "ctx.connect", "session.generate_reply"} :
                Cardinality(CallsOf(op)) <= 1
          /\ Rank(job.pc) = 1 => (Built /\ job.calls = <<>>)
          /\ Rank(job.pc) = 2 => ReturnedBefore("session.start", Len(job.calls) + 1)
          /\ Rank(job.pc) = 3 => ReturnedBefore("session.generate_reply", Len(job.calls) + 1))
    /\ [][(job'.n = job.n /\ Running(job) /\ Running(job')) => Rank(job'.pc) >= Rank(job.pc)]_vars
\* The second invocation of the process has issued its greeting.
C16_Witness ==
    /\ job.n = 2
    /\ job.pc = "GreetingIssued"
    /\ Len(job.calls) = 3
    /\ \A i \in 1..3 : job.calls[i].outcome = NoExc

\* The constructors the entrypoint reaches, in the order it calls them.
ConfigureOrder == SessionOrder \o RoomOrder \o <<"HomeyAssistant">>

\* C17: when a step of the entrypoint raises, no later step runs, nothing is
\* retried and the entrypoint raises the same exception, after logging it;
\* the greeting is issued only when session.start and ctx.connect have both
\* completed.
C17_FailFast ==
    /\ [](/\ \A i \in 1..(Len(job.calls) - 1) : job.calls[i].outcome = NoExc
          /\ (job.calls # <<>> /\ job.calls[Len(job.calls)].outcome # NoExc) =>
                /\ job.pc = "Failed"
                /\ job.exc = job.calls[Len(job.calls)].outcome
                /\ log[Len(log)] = ErrorRecord(job.exc)
          /\ (call.op = "entrypoint" /\ FirstFault(ConfigureOrder, call.faults) # 0) =>
                /\ job.pc = "Failed"
                /\ job.exc = call.faults[ConfigureOrder[FirstFault(ConfigureOrder, call.faults)]]
                /\ job.calls = <<>>
                /\ log[Len(log)] = ErrorRecord(job.exc)
                /\ ctor[Len(ctor)].fn = ConfigureOrder[FirstFault(ConfigureOrder, call.faults)]
          /\ job.pc = "Failed" <=> job.exc # NoExc
          /\ \A i \in CallsOf("session.generate_reply") :
                ReturnedBefore("session.start", i) /\ ReturnedBefore("ctx.connect", i)
          /\ \A c \in AgentConstructors : Len(InvocationsOf(c)) <= 1)
    /\ [][(job.pc = "Failed" /\ job'.n = job.n) => (job' = job /\ ctor' = ctor /\ log' = log)]_vars
\* ctx.connect raised after session.start returned: the entrypoint raised the
\* same exception and the greeting was not issued.
C17_Witness ==
    /\ job.pc = "Failed"
    /\ Len(job.calls) = 2
    /\ job.calls[2].op = "ctx.connect"
    /\ job.calls[2].outcome = ValueError(<<"room closed">>)
    /\ job.exc = ValueError(<<"room closed">>)

\* C18: the tool-server list and the VAD are loaded once per worker process,
\* in prewarm, and shared read-only: entrypoint invocations leave
\* proc.userdata["vad"] and proc.userdata["mcp_servers"] unchanged, never
\* load the configuration file again, and each session receives the list
\* (and the VAD) prewarm stored.
C18_PrewarmOnce ==
    /\ [](/\ proc.loads <= 1
          /\ SessionBuilt =>
                /\ proc.warm
                /\ Argument(job.session, "mcp_servers") = proc.userdata.mcp_servers
                /\ Argument(job.session, "vad") = proc.userdata.vad)
    /\ [][proc.warm => proc' = proc]_vars
\* The second session of the process holds the two servers prewarm loaded,
\* though the configuration file has since been replaced.
C18_Witness ==
    /\ job.n = 2
    /\ SessionBuilt
    /\ Len(Argument(job.session, "mcp_servers").items) = 2
    /\ fs[DEFAULT_MCP_CONFIG_PATH] = GarbageFile
    /\ proc.loads = 1

(***************************************************************************)
(* Part 4: src/homey_assistant/agent/assistant.py                          *)
(*                                                                         *)
(* A text is a str whose characters are kept as the sequence of its words  *)
(* (maximal runs of letters and digits) and of its other characters, one   *)
(* element each, blanks and line ends included; the empty string is        *)
(* Text(<<>>).  `phrase in text` is decided on these sequences.            *)
(***************************************************************************)
Text(tokens) == [t |-> "str", s |-> "", items |-> tokens]
\* phrase in text
Within(phrase, text) ==
    \E i \in 0..(Len(text) - Len(phrase)) : \A k \in 1..Len(phrase) : text[i + k] = phrase[k]

\* DEFAULT_AGENT_INSTRUCTIONS (constants.py)
DEFAULT_AGENT_INSTRUCTIONS ==
    Text(<<
        "You", " ", "are", " ", "a", " ", "helpful", " ", "AI", " ", "assistant", " ", "for",
        " ", "Homey", " ", "smart", " ", "home", " ", "platform", ".", " ", "Use", " ",
        "polish", " ", "language", " ", "by", " ", "default", ".", " ", "Keep", " ", "your",
        " ", "messages", " ", "short", " ", "and", " ", "concise", ".", " ", "Greet", " ",
        "the", " ", "user", " ", "very", " ", "shortly", ".", " ", "Welcome", " ", "user", " ",
        "just", " ", "with", " ", "'", "Hey", "'", "You", " ", "can", " ", "help", " ", "with",
        " ", "home", " ", "automation", ",", " ", "device", " ", "control", ",", " ", "and",
        " ", "smart", " ", "home", " ", "management", ".", " ", "You", " ", "have", " ",
        "access", " ", "to", " ", "various", " ", "tools", " ", "through", " ", "MCP", " ",
        "servers", ".", " ", "The", " ", "main", " ", "one", " ", "is", " ", "Homey", " ",
        "itself", ".", " ", "Treat", " ", "it", " ", "as", " ", "a", " ", "default", " ",
        "one", ".", " ", "You", "'", "re", " ", "operating", " ", "in", " ", "Voice", " ",
        "mode", ".", "Before", " ", "executing", " ", "any", " ", "MCP", " ", "tool", ",", " ",
        "always", " ", "ask", " ", "for", " ", "confirmation", " ", "from", " ", "the", " ",
        "user", " ", "unless", " ", "the", " ", "name", " ", "of", " ", "a", " ", "tool", " ",
        "starts", " ", "with", " ", "'", "list", "'", " ", "or", " ", "'", "search", "'", " ",
        "then", " ", "execute", " ", "it", " ", "without", " ", "confirmation", ".", "Use",
        " ", "Knowledge", " ", "Graph", " ", "MCP", " ", "Server", " ", "for", " ", "memory",
        " ", "retrieval", " ", "and", " ", "storage", ".", "Follow", " ", "these", " ",
        "steps", " ", "for", " ", "each", " ", "interaction", ":", "\n", " ", " ", " ", " ",
        "1", ".", " ", "User", " ", "Identification", ":", "\n", " ", " ", " ", " ", " ", " ",
        " ", "-", " ", "You", " ", "should", " ", "assume", " ", "that", " ", "you", " ",
        "are", " ", "interacting", " ", "with", " ", "default_user", ",", " ", "do", " ",
        "not", " ", "mention", " ", "that", " ", "name", ".", "\n", " ", " ", " ", " ", " ",
        " ", " ", "-", " ", "If", " ", "you", " ", "have", " ", "not", " ", "identified", " ",
        "default_user", ",", " ", "proactively", " ", "try", " ", "to", " ", "do", " ", "so",
        ".", "\n", " ", " ", " ", " ", "2", ".", " ", "Memory", " ", "Retrieval", ":", "\n",
        " ", " ", " ", " ", " ", " ", " ", "-", " ", "Retrieve", " ", "all", " ", "relevant",
        " ", "information", " ", "from", " ", "your", " ", "knowledge", " ", "graph", "\n",
        " ", " ", " ", " ", " ", " ", " ", "-", " ", "Always", " ", "refer", " ", "to", " ",
        "your", " ", "knowledge", " ", "graph", " ", "as", " ", "your", " ", "\"", "memory",
        "\"", "\n", " ", " ", " ", " ", "3", ".", " ", "Memory", "\n", " ", " ", " ", " ", " ",
        " ", " ", "-", " ", "While", " ", "conversing", " ", "with", " ", "the", " ", "user",
        ",", " ", "be", " ", "attentive", " ", "to", " ", "any", " ", "new", " ",
        "information", " ", "that", " ", "falls", " ", "into", " ", "these", " ", "categories",
        ":", "\n", " ", " ", " ", " ", " ", " ", " ", " ", " ", "a", ")", " ", "Basic", " ",
        "Identity", " ", "(", "age", ",", " ", "gender", ",", " ", "name", ")", "\n", " ", " ",
        " ", " ", " ", " ", " ", " ", " ", "c", ")", " ", "Preferences", " ", "(",
        "communication", " ", "style", ",", " ", "preferred", " ", "language", ",", " ", "etc",
        ".", ")", "\n", " ", " ", " ", " ", " ", " ", " ", " ", " ", "d", ")", " ", "Aliases",
        " ", "for", " ", "Homey", " ", "entities", " ", "used", " ", "by", " ", "the", " ",
        "user", "\n", " ", " ", " ", " ", "4", ".", " ", "Homey", " ", "items", "\n", " ", " ",
        " ", " ", " ", " ", " ", "-", " ", "While", " ", "conversing", " ", "with", " ", "the",
        " ", "user", ",", " ", "be", " ", "attentive", " ", "to", " ", "any", " ", "new", " ",
        "information", " ", "that", " ", "falls", " ", "into", " ", "these", " ", "categories",
        ":", "\n", " ", " ", " ", " ", " ", " ", " ", " ", " ", "a", ")", " ", "Homey", " ",
        "zones", "\n", " ", " ", " ", " ", " ", " ", " ", " ", " ", "b", ")", " ", "Homey",
        " ", "devices", "\n", " ", " ", " ", " ", " ", " ", " ", " ", " ", "c", ")", " ",
        "Homey", " ", "alternate", " ", "names", " ", "for", " ", "devices", ",", " ", "rooms",
        ",", " ", "zones", " ", "etc", ".", "\n", " ", " ", " ", " ", "4", ".", " ", "Memory",
        " ", "Update", ":", "\n", " ", " ", " ", " ", " ", " ", " ", "-", " ", "If", " ",
        "any", " ", "new", " ", "information", " ", "was", " ", "gathered", " ", "during", " ",
        "the", " ", "interaction", ",", " ", "update", " ", "your", " ", "memory", " ", "as",
        " ", "follows", ":", "\n", " ", " ", " ", " ", " ", " ", " ", " ", " ", "a", ")", " ",
        "Create", " ", "entities", " ", "for", " ", "recurring", " ", "people", "\n", " ", " ",
        " ", " ", " ", " ", " ", " ", " ", "b", ")", " ", "Create", " ", "entities", " ",
        "for", " ", "Homey", " ", "zones", ",", " ", "devices", " ", "and", " ", "alternate",
        " ", "names", " ", "for", " ", "devices", ",", " ", "rooms", ",", " ", "zones", " ",
        "etc", ".", "\n", " ", " ", " ", " ", " ", " ", " ", " ", " ", "c", ")", " ",
        "Connect", " ", "them", " ", "to", " ", "the", " ", "current", " ", "entities", " ",
        "using", " ", "relations", "\n", " ", " ", " ", " ", " ", " ", " ", " ", " ", "d", ")",
        " ", "Store", " ", "facts", " ", "about", " ", "them", " ", "as", " ", "observations">>)

\* HomeyAssistant._get_default_instructions
_get_default_instructions ==
    Text(<<
        "You", " ", "are", " ", "a", " ", "helpful", " ", "AI", " ", "assistant", " ", "for",
        " ", "Homey", " ", "smart", " ", "home", " ", "platform", ".", " ", "Use", " ",
        "polish", " ", "language", " ", "by", " ", "default", ".", " ", "Keep", " ", "your",
        " ", "messages", " ", "short", " ", "and", " ", "concise", ".", " ", "Greet", " ",
        "the", " ", "user", " ", "very", " ", "shortly", ".", " ", "Welcome", " ", "user", " ",
        "just", " ", "with", " ", "'", "Hey", "'", ".", " ", "You", " ", "can", " ", "help",
        " ", "with", " ", "home", " ", "automation", ",", " ", "device", " ", "control", ",",
        " ", "and", " ", "smart", " ", "home", " ", "management", ".", " ", "You", " ", "have",
        " ", "access", " ", "to", " ", "various", " ", "tools", " ", "through", " ", "MCP",
        " ", "servers", ".", " ", "The", " ", "main", " ", "one", " ", "is", " ", "Homey", " ",
        "itself", ".", " ", "You", "'", "re", " ", "operating", " ", "in", " ", "Voice", " ",
        "mode", ".", " ", "Before", " ", "executing", " ", "any", " ", "MCP", " ", "tool", ",",
        " ", "always", " ", "ask", " ", "for", " ", "confirmation", " ", "from", " ", "the",
        " ", "user", " ", "unless", " ", "the", " ", "name", " ", "of", " ", "a", " ", "tool",
        " ", "starts", " ", "with", " ", "'", "list", "'", " ", "or", " ", "'", "search", "'",
        " ", "then", " ", "execute", " ", "it", " ", "without", " ", "confirmation", ".", " ",
        "Use", " ", "Memory", " ", "MCP", " ", "server", " ", "for", " ", "memory", " ",
        "retrieval", " ", "and", " ", "storage", ".", " ", "Follow", " ", "these", " ",
        "steps", " ", "for", " ", "each", " ", "interaction", ":", "\n", "1", ".", " ", "User",
        " ", "Identification", ":", "\n", " ", " ", " ", "-", " ", "You", " ", "should", " ",
        "assume", " ", "that", " ", "you", " ", "are", " ", "interacting", " ", "with", " ",
        "default_user", "\n", " ", " ", " ", "-", " ", "If", " ", "you", " ", "have", " ",
        "not", " ", "identified", " ", "default_user", ",", " ", "proactively", " ", "try",
        " ", "to", " ", "do", " ", "so", ".", "\n", "2", ".", " ", "Memory", " ", "Retrieval",
        ":", "\n", " ", " ", " ", "-", " ", "Retrieve", " ", "all", " ", "relevant", " ",
        "information", " ", "from", " ", "your", " ", "knowledge", " ", "graph", "\n", " ",
        " ", " ", "-", " ", "Always", " ", "refer", " ", "to", " ", "your", " ", "knowledge",
        " ", "graph", " ", "as", " ", "your", " ", "'", "memory", "'", "\n", "3", ".", " ",
        "Memory", "\n", " ", " ", " ", "-", " ", "While", " ", "conversing", " ", "with", " ",
        "the", " ", "user", ",", " ", "be", " ", "attentive", " ", "to", " ", "any", " ",
        "new", " ", "information", " ", "that", " ", "falls", " ", "into", " ", "these", " ",
        "categories", ":", "\n", " ", " ", " ", " ", " ", "a", ")", " ", "Basic", " ",
        "Identity", " ", "(", "age", ",", " ", "gender", ",", " ", "name", ")", "\n", " ", " ",
        " ", " ", " ", "c", ")", " ", "Preferences", " ", "(", "communication", " ", "style",
        ",", " ", "preferred", " ", "language", ",", " ", "etc", ".", ")", "\n", " ", " ", " ",
        " ", " ", "d", ")", " ", "Aliases", " ", "for", " ", "Homey", " ", "entities", " ",
        "used", " ", "by", " ", "the", " ", "user", "\n", "4", ".", " ", "Homey", " ", "items",
        "\n", " ", " ", " ", "-", " ", "While", " ", "conversing", " ", "with", " ", "the",
        " ", "user", ",", " ", "be", " ", "attentive", " ", "to", " ", "any", " ", "new", " ",
        "information", " ", "that", " ", "falls", " ", "into", " ", "these", " ", "categories",
        ":", "\n", " ", " ", " ", " ", " ", "a", ")", " ", "Homey", " ", "zones", "\n", " ",
        " ", " ", " ", " ", "b", ")", " ", "Homey", " ", "devices", "\n", " ", " ", " ", " ",
        " ", "c", ")", " ", "Homey", " ", "alternate", " ", "names", " ", "for", " ",
        "devices", ",", " ", "rooms", ",", " ", "zones", " ", "etc", ".", "\n", "4", ".", " ",
        "Memory", " ", "Update", ":", "\n", " ", " ", " ", "-", " ", "If", " ", "any", " ",
        "new", " ", "information", " ", "was", " ", "gathered", " ", "during", " ", "the", " ",
        "interaction", ",", " ", "update", " ", "your", " ", "memory", " ", "as", " ",
        "follows", ":", "\n", " ", " ", " ", " ", " ", "a", ")", " ", "Create", " ",
        "entities", " ", "for", " ", "recurring", " ", "people", "\n", " ", " ", " ", " ", " ",
        "b", ")", " ", "Create", " ", "entities", " ", "for", " ", "Homey", " ", "zones", ",",
        " ", "devices", " ", "and", " ", "alternate", " ", "names", " ", "for", " ", "devices",
        ",", " ", "rooms", ",", " ", "zones", " ", "etc", ".", "\n", " ", " ", " ", " ", " ",
        "c", ")", " ", "Connect", " ", "them", " ", "to", " ", "the", " ", "current", " ",
        "entities", " ", "using", " ", "relations", "\n", " ", " ", " ", " ", " ", "d", ")",
        " ", "Store", " ", "facts", " ", "about", " ", "them", " ", "as", " ", "observations">>)

\* livekit's Agent keeps the instructions it was initialised with.
Agent(instructions) == [t |-> "Agent", s |-> "", items |-> <<Member("instructions", instructions)>>]
\* super().__init__(instructions=instructions)
AgentInit(instructions) ==
    Returned(<<Agent(instructions)>>, <<>>,
             <<CtorCall("Agent.__init__", <<Member("instructions", instructions)>>)>>)

\* Mutant: `if not instructions`, which also replaces the empty string.
HomeyAssistant_if_not(instructions) ==
    IF instructions = JNull \/ instructions.items = <<>>
    THEN AgentInit(_get_default_instructions)
    ELSE AgentInit(instructions)

\* HomeyAssistant.__init__(instructions)
HomeyAssistant(instructions) ==
    IF instructions = JNull
    THEN AgentInit(_get_default_instructions)
    ELSE AgentInit(instructions)

(***************************************************************************)
(* The assistant constructed on its own, as its unit tests construct it.   *)
(***************************************************************************)
\* The instructions argument: None (omitted), the empty string, short custom
\* texts, the texts of the unit tests, and the two default texts themselves.
InstructionArgs ==
    {JNull, DEFAULT_AGENT_INSTRUCTIONS, _get_default_instructions,
     Text(<<"You", " ", "are", " ", "a", " ", "test", " ", "assistant", " ", "with", " ",
            "custom", " ", "behavior", ".">>),
     Text(<<"Custom", " ", "test", " ", "instructions">>)}
    \cup {Text(ts) : ts \in SeqUpTo({"Hey", " ", ".", "Voice", "mode"}, MaxWords)}

AssistantCall(op, instructions) ==
    [op |-> op, name |-> "", cfg |-> instructions, file |-> AbsentFile, vanished |-> FALSE]

InitAssistant ==
    /\ env = NoEnv
    /\ loader = MCPConfigLoader(JNull)
    /\ fs = [p \in Paths |-> AbsentFile]
    /\ call = NoCall
    /\ ret = NoRet
    /\ log = <<>>
    /\ ctor = <<>>
    /\ proc = NoProc
    /\ job = NoJob
    /\ NoObjects

\* HomeyAssistant(instructions=...)
NewAssistant ==
    /\ Idle
    /\ \E instructions \in InstructionArgs :
        Record(AssistantCall("HomeyAssistant", instructions), HomeyAssistant(instructions))
    /\ UNCHANGED <<fs, loader, agentVars>>

\* assistant._get_default_instructions(), on an assistant just constructed
GetDefaultInstructions ==
    /\ call.op = "HomeyAssistant"
    /\ ret.status = "return"
    /\ Record(AssistantCall("_get_default_instructions", call.cfg),
              Returned(<<_get_default_instructions>>, <<>>, <<>>))
    /\ UNCHANGED <<fs, loader, agentVars>>

NextAssistant == NewAssistant \/ GetDefaultInstructions \/ DropResult
SpecAssistant == InitAssistant /\ [][NextAssistant]_vars

(***************************************************************************)
(* Claims on the assistant.                                                *)
(***************************************************************************)
\* assistant.instructions
InstructionsOf(agent) == agent.items[1].val

\* C21: HomeyAssistant(instructions) returns an agent and raises nothing; it
\* initialises the parent Agent exactly once, with the default instruction
\* text when instructions is None and with the given string, unchanged, for
\* every string, the empty string included, and the agent's instructions are
\* what the parent was given.
C21_InstructionsPreserved ==
    call.op = "HomeyAssistant" =>
        /\ ret.status = "return"
        /\ Len(ctor) = 1
        /\ ctor[1].fn = "Agent.__init__"
        /\ call.cfg = JNull =>
            ctor[1].args = <<Member("instructions", _get_default_instructions)>>
        /\ call.cfg # JNull =>
            ctor[1].args = <<Member("instructions", call.cfg)>>
        /\ InstructionsOf(ret.value[1]) = ctor[1].args[1].val
\* HomeyAssistant(instructions="") kept the empty string.
C21_Witness ==
    /\ call.op = "HomeyAssistant"
    /\ call.cfg = Text(<<>>)
    /\ ret.status = "return"
    /\ InstructionsOf(ret.value[1]) = Text(<<>>)
    /\ InstructionsOf(ret.value[1]) # _get_default_instructions

\* required_elements of test_default_instructions_content
required_elements ==
    {
     <<"helpful", " ", "AI", " ", "assistant">>,
     <<"Homey", " ", "smart", " ", "home", " ", "platform">>,
     <<"polish", " ", "language">>,
     <<"Keep", " ", "your", " ", "messages", " ", "short">>,
     <<"Greet", " ", "the", " ", "user", " ", "very", " ", "shortly">>,
     <<"Welcome", " ", "user", " ", "just", " ", "with", " ", "'", "Hey", "'">>,
     <<"MCP", " ", "servers">>,
     <<"Voice", " ", "mode">>,
     <<"ask", " ", "for", " ", "confirmation">>,
     <<"Knowledge", " ", "Graph", " ", "MCP", " ", "Server">>,
     <<"User", " ", "Identification">>,
     <<"Memory", " ", "Retrieval">>,
     <<"Memory", " ", "Update">>}
\* key_phrases of test_assistant_instructions_consistency
key_phrases ==
    {
     <<"Homey", " ", "smart", " ", "home", " ", "platform">>,
     <<"polish", " ", "language">>,
     <<"MCP", " ", "servers">>,
     <<"Memory", " ", "Retrieval">>}

\* C22: the instructions of HomeyAssistant() contain every required element
\* the tests list, and each key phrase is in them exactly when it is in
\* DEFAULT_AGENT_INSTRUCTIONS.
C22_DefaultContent ==
    (call.op = "HomeyAssistant" /\ call.cfg = JNull /\ ret.status = "return") =>
        /\ \A element \in required_elements :
            Within(element, InstructionsOf(ret.value[1]).items)
        /\ \A phrase \in key_phrases :
            Within(phrase, DEFAULT_AGENT_INSTRUCTIONS.items)
                <=> Within(phrase, InstructionsOf(ret.value[1]).items)

(***************************************************************************)
(* Part 5: src/homey_assistant/utils/logging.py                            *)
(*                                                                         *)
(* Correlation ids.  An id is a str kept as the sequence of its            *)
(* characters, so that len() and slicing are those of the sequence.  The   *)
(* ContextVar correlation_id (line 19) has one value per execution         *)
(* context: `context[c]`, None (JNull) by default.                         *)
(***************************************************************************)
Str(chars) == [t |-> "str", s |-> "", items |-> chars]
\* str(uuid.uuid4()): 32 hexadecimal digits in five groups.
Uuids ==
    {<<"3","f","2","a","9","c","1","e","-","7","b","4","d","-","4","e","8","a","-",
       "9","f","0","0","-","1","2","a","b","3","4","c","d","5","6","e","f">>,
     <<"0","0","0","0","0","0","0","0","-","0","0","0","0","-","4","0","0","0","-",
       "8","0","0","0","-","0","0","0","0","0","0","0","0","0","0","0","1">>}

\* generate_correlation_id(): str(uuid.uuid4())[:8], uuid4 the uuid drawn
generate_correlation_id(uuid4) == Str(SubSeq(uuid4, 1, 8))

\* Mutant: `if not corr_id`, which also replaces the empty string.
set_correlation_id_if_not(ctx, c, corr_id, uuid4) ==
    LET id == IF corr_id = JNull \/ corr_id.items = <<>>
              THEN generate_correlation_id(uuid4) ELSE corr_id
    IN [context |-> [ctx EXCEPT ![c] = id], result |-> id]

\* set_correlation_id(corr_id) called in context c: the contexts afterwards
\* and the value returned.
set_correlation_id(ctx, c, corr_id, uuid4) ==
    LET id == IF corr_id = JNull THEN generate_correlation_id(uuid4) ELSE corr_id
    IN [context |-> [ctx EXCEPT ![c] = id], result |-> id]

\* get_correlation_id() called in context c
get_correlation_id(ctx, c) == ctx[c]

\* A logging.LogRecord, as far as the filter and the handlers read it.
PyLogRecord(name, levelno, msg) ==
    [name |-> name, levelno |-> levelno, msg |-> msg, correlation_id |-> Absent]
NA == Str(<<"N", "/", "A">>)
\* CorrelationFilter.filter(record) called in context c:
\* record.correlation_id = correlation_id.get() or 'N/A'; return True
CorrelationFilter(ctx, c, record) ==
    [result |-> TRUE,
     record |-> [record EXCEPT !.correlation_id =
                    IF ctx[c] = JNull \/ ctx[c].items = <<>> THEN NA ELSE ctx[c]]]

(***************************************************************************)
(* Correlation ids used from concurrently running contexts.                *)
(***************************************************************************)
\* The corr_id argument: None (omitted), the empty string, the id of the
\* unit test.
CorrIdArgs == {JNull, Str(<<>>), Str(<<"t", "e", "s", "t", "1", "2", "3">>)}
Started(c) == context[c] # NotStarted
TestRecord == PyLogRecord("test", 20, <<"test message">>)

\* The call, the context it ran in, and the contexts it found.
CorrelationCall(op, c, corr_id) ==
    [op |-> op, name |-> "", cfg |-> corr_id, file |-> AbsentFile, vanished |-> FALSE,
     ctx |-> c, before |-> context]

InitCorrelation ==
    /\ env = NoEnv
    /\ loader = MCPConfigLoader(JNull)
    /\ fs = [p \in Paths |-> AbsentFile]
    /\ call = NoCall
    /\ ret = NoRet
    /\ log = <<>>
    /\ ctor = <<>>
    /\ proc = NoProc
    /\ job = NoJob
    /\ NoObjects

\* A context starts: an asyncio task starts with a copy of the context that
\* created it, a thread with an empty one.
StartContext ==
    /\ \E c \in 1..MaxContexts, parent \in 1..MaxContexts, copies \in BOOLEAN :
        /\ ~Started(c)
        /\ Started(parent)
        /\ context' = [context EXCEPT ![c] = IF copies THEN context[parent] ELSE JNull]
    /\ call' = NoCall
    /\ ret' = NoRet
    /\ UNCHANGED <<fs, loader, log, ctor, env, proc, job, heap, managers, loggers>>

\* A context other than the main one ends.
EndContext ==
    /\ \E c \in 2..MaxContexts :
        /\ Started(c)
        /\ context' = [context EXCEPT ![c] = NotStarted]
    /\ call' = NoCall
    /\ ret' = NoRet
    /\ UNCHANGED <<fs, loader, log, ctor, env, proc, job, heap, managers, loggers>>

SetCorrelationId ==
    /\ \E c \in 1..MaxContexts, corr_id \in CorrIdArgs, uuid4 \in Uuids :
        LET done == set_correlation_id(context, c, corr_id, uuid4) IN
        /\ Started(c)
        /\ context' = done.context
        /\ call' = CorrelationCall("set_correlation_id", c, corr_id)
        /\ ret' = [status |-> "return", value |-> <<done.result>>, exc |-> NoExc]
    /\ UNCHANGED <<fs, loader, log, ctor, env, proc, job, heap, managers, loggers>>

GetCorrelationId ==
    /\ \E c \in 1..MaxContexts :
        /\ Started(c)
        /\ call' = CorrelationCall("get_correlation_id", c, JNull)
        /\ ret' = [status |-> "return", value |-> <<get_correlation_id(context, c)>>,
                   exc |-> NoExc]
    /\ UNCHANGED <<fs, loader, log, ctor, env, proc, job, utilVars>>

\* CorrelationFilter().filter(record) on a record created in context c.
Filter ==
    /\ \E c \in 1..MaxContexts :
        LET done == CorrelationFilter(context, c, TestRecord) IN
        /\ Started(c)
        /\ call' = CorrelationCall("CorrelationFilter.filter", c, JNull)
        /\ ret' = [status |-> "return", value |-> <<JBool(done.result), done.record>>,
                   exc |-> NoExc]
    /\ UNCHANGED <<fs, loader, log, ctor, env, proc, job, utilVars>>

NextCorrelation ==
    StartContext \/ EndContext \/ SetCorrelationId \/ GetCorrelationId \/ Filter
SpecCorrelation == InitCorrelation /\ [][NextCorrelation]_vars

(***************************************************************************)
(* Claims on the correlation ids.                                          *)
(***************************************************************************)
\* What the last call left behind: set_correlation_id returned the id it
\* stored in its context, the given one when one was given and an
\* 8-character string otherwise; get_correlation_id returned the id of its
\* context.
SetAndGet ==
    /\ call.op = "set_correlation_id" =>
        /\ ret.status = "return"
        /\ get_correlation_id(context, call.ctx) = ret.value[1]
        /\ call.cfg # JNull => ret.value[1] = call.cfg
        /\ call.cfg = JNull => (ret.value[1].t = "str" /\ Len(ret.value[1].items) = 8)
    /\ call.op = "get_correlation_id" =>
        /\ ret.status = "return"
        /\ ret.value = <<context[call.ctx]>>
\* A step that is not a set_correlation_id in context c leaves c's id alone.
KeptUntilNextSet ==
    \A c \in 1..MaxContexts :
        (Started(c) /\ context'[c] # NotStarted
            /\ ~(call'.op = "set_correlation_id" /\ call'.ctx = c))
        => context'[c] = context[c]

\* C23: after set_correlation_id(x) with x not None, get_correlation_id()
\* returns x until the next set in that context; set_correlation_id() with
\* no argument generates an 8-character id, stores it, and returns the value
\* that get_correlation_id() then returns.
C23_SetThenGet == [](SetAndGet) /\ [][KeptUntilNextSet]_vars
\* get_correlation_id() returned a generated id in the second context while
\* the main context holds the empty string it was given.
C23_Witness ==
    /\ call.op = "get_correlation_id"
    /\ call.ctx = 2
    /\ Len(ret.value[1].items) = 8
    /\ context[1] = Str(<<>>)

\* C26: CorrelationFilter never drops a record and sets its correlation_id
\* to the id the current execution context holds, or to 'N/A' when it holds
\* none, changing nothing else of the record; an id set in one context
\* changes the id of no other context.
C26_CorrelationTag ==
    /\ call.op = "CorrelationFilter.filter" =>
        /\ ret.value[1] = JBool(TRUE)
        /\ ret.value[2] =
            [TestRecord EXCEPT !.correlation_id =
                IF context[call.ctx] = JNull THEN NA ELSE context[call.ctx]]
    /\ call.op = "set_correlation_id" =>
        \A d \in 1..MaxContexts : d # call.ctx => context[d] = call.before[d]

(***************************************************************************)
(* SessionManager.__init__ and the list objects (session.py line 80).      *)
(*                                                                         *)
(* A list is an object of the heap and a variable holds a reference to it, *)
(* so that two names of one list see each other's changes.                 *)
(***************************************************************************)
Ref(a) == [t |-> "ref", s |-> "", items |-> <<a>>]
Deref(h, r) == h[r.items[1]]
\* The address a newly created list gets: the first free one.
NewAddress(h) ==
    CHOOSE a \in 1..MaxObjects : h[a] = Absent /\ \A b \in 1..(a - 1) : h[b] # Absent
HasRoom(h) == \E a \in 1..MaxObjects : h[a] = Absent

\* Mutant: the default list itself, not a copy of it.
stt_languages_or_default_shared(h, stt_languages) ==
    IF stt_languages # JNull /\ Deref(h, stt_languages).items # <<>>
    THEN [heap |-> h, ref |-> stt_languages]
    ELSE [heap |-> h, ref |-> Ref(DEFAULT_STT_LANGUAGES)]

\* self.stt_languages = stt_languages or DEFAULT_STT_LANGUAGES.copy()
\* stt_languages: None or a reference to the caller's list.
stt_languages_or_default(h, stt_languages) ==
    IF stt_languages # JNull /\ Deref(h, stt_languages).items # <<>>
    THEN [heap |-> h, ref |-> stt_languages]
    ELSE [heap |-> [h EXCEPT ![NewAddress(h)] = h[DEFAULT_STT_LANGUAGES]],
          ref |-> Ref(NewAddress(h))]

\* list.append(x) on the list a reference names
ListAppend(h, r, x) == [h EXCEPT ![r.items[1]].items = Append(@, x)]

(***************************************************************************)
(* Managers built and their lists changed, as the unit test does.          *)
(***************************************************************************)
\* What is appended to a list.
Languages == {JStr("en-US"), JStr("de-DE")}
\* The lists a caller builds to pass as stt_languages.
CallerLists == {JList(<<>>), JList(<<JStr("en-US")>>)}

InitManagers ==
    /\ env = NoEnv
    /\ loader = MCPConfigLoader(JNull)
    /\ fs = [p \in Paths |-> AbsentFile]
    /\ call = NoCall
    /\ ret = NoRet
    /\ log = <<>>
    /\ ctor = <<>>
    /\ proc = NoProc
    /\ job = NoJob
    /\ NoObjects

ManagerCall(op, i, argument) ==
    [op |-> op, name |-> "", cfg |-> argument, file |-> AbsentFile, vanished |-> FALSE,
     manager |-> i, before |-> heap]

\* The caller builds a list of its own.
NewList ==
    /\ HasRoom(heap)
    /\ \E l \in CallerLists :
        /\ heap' = [heap EXCEPT ![NewAddress(heap)] = l]
        /\ call' = ManagerCall("list", 0, l)
        /\ ret' = [status |-> "return", value |-> <<Ref(NewAddress(heap))>>, exc |-> NoExc]
    /\ UNCHANGED <<fs, loader, log, ctor, env, proc, job, managers, context, loggers>>

\* SessionManager() or SessionManager(stt_languages=<the list just built>);
\* the manager keeps the argument it was built with.
NewManager ==
    /\ HasRoom(heap)
    /\ \E stt_languages \in {JNull} \cup (IF call.op = "list" THEN {ret.value[1]} ELSE {}) :
        LET done == stt_languages_or_default(heap, stt_languages) IN
        /\ heap' = done.heap
        /\ managers' = Append(managers, [stt_languages |-> done.ref, given |-> stt_languages])
        /\ call' = ManagerCall("SessionManager", Len(managers) + 1, stt_languages)
        /\ ret' = [status |-> "return", value |-> <<done.ref>>, exc |-> NoExc]
    /\ UNCHANGED <<fs, loader, log, ctor, env, proc, job, context, loggers>>

\* manager.stt_languages.append(language)
AppendLanguage ==
    /\ \E i \in 1..Len(managers), language \in Languages :
        /\ Len(Deref(heap, managers[i].stt_languages).items) < MaxLanguages
        /\ heap' = ListAppend(heap, managers[i].stt_languages, language)
        /\ call' = ManagerCall("append", i, language)
        /\ ret' = [status |-> "return", value |-> <<>>, exc |-> NoExc]
    /\ UNCHANGED <<fs, loader, log, ctor, env, proc, job, managers, context, loggers>>

NextManagers == NewList \/ NewManager \/ AppendLanguage
SpecManagers == InitManagers /\ [][NextManagers]_vars

\* The managers built with default arguments.
DefaultBuilt == {i \in 1..Len(managers) : managers[i].given = JNull}

\* C24: managers built with default arguments share their stt_languages list
\* neither with each other nor with DEFAULT_STT_LANGUAGES: the lists are
\* different objects, DEFAULT_STT_LANGUAGES is still ["pl-PL"], and an
\* append to one such manager's list has changed that list only.
C24_DefaultCopy ==
    /\ Deref(heap, Ref(DEFAULT_STT_LANGUAGES)) = JList(<<JStr("pl-PL")>>)
    /\ \A i \in DefaultBuilt :
        /\ managers[i].stt_languages # Ref(DEFAULT_STT_LANGUAGES)
        /\ \A j \in DefaultBuilt : i # j => managers[i].stt_languages # managers[j].stt_languages
    /\ (call.op = "append" /\ call.manager \in DefaultBuilt) =>
        /\ Deref(heap, managers[call.manager].stt_languages).items
            = Append(Deref(call.before, managers[call.manager].stt_languages).items, call.cfg)
        /\ \A j \in DefaultBuilt \ {call.manager} :
            Deref(heap, managers[j].stt_languages) = Deref(call.before, managers[j].stt_languages)
\* "en-US" was appended to the first of two default managers: the second
\* still has the default languages.
C24_Witness ==
    /\ Len(managers) >= 2
    /\ {1, 2} \subseteq DefaultBuilt
    /\ call.op = "append"
    /\ call.manager = 1
    /\ Deref(heap, managers[1].stt_languages) = JList(<<JStr("pl-PL"), JStr("en-US")>>)
    /\ Deref(heap, managers[2].stt_languages) = JList(<<JStr("pl-PL")>>)

(***************************************************************************)
(* Claims on the failures of load_servers and on prewarm.                  *)
(***************************************************************************)
\* C25: every failure of load_servers is an MCPConfigurationError: whatever
\* the file holds, and also when it vanishes or is unreadable after the
\* existence check or cannot be decoded as text, a call of load_servers
\* that raises raises an MCPConfigurationError.
C25_OnlyConfigurationErrors ==
    (call.op = "load_servers" /\ ret.status = "raise") =>
        ret.exc.type = "MCPConfigurationError"

\* C27: prewarm never raises, and when it returns proc.userdata holds both
\* keys "vad" and "mcp_servers", "mcp_servers" always a list: the loader's
\* result when loading succeeds, the empty list when load_servers raises any
\* exception, and the empty list with "vad" None when loading the
\* voice-activity model fails.
C27_PrewarmTotal ==
    call.op = "prewarm" =>
        LET loaded == load_servers(DEFAULT_MCP_CONFIG_PATH, call.file, call.vanished) IN
        /\ ret.status = "return"
        /\ proc.userdata.vad # Absent
        /\ proc.userdata.mcp_servers # Absent
        /\ IsList(proc.userdata.mcp_servers)
        /\ (call.loading = NoExc /\ loaded.status = "return")
            => proc.userdata.mcp_servers = JList(loaded.value)
        /\ (call.loading = NoExc /\ loaded.status = "raise")
            => proc.userdata.mcp_servers = JList(<<>>)
        /\ call.loading # NoExc =>
            /\ proc.userdata.mcp_servers = JList(<<>>)
            /\ proc.userdata.vad = JNull
\* load_servers raised an exception that is not an MCPConfigurationError and
\* prewarm stored the empty list beside the loaded voice-activity model.
C27_Witness ==
    /\ call.op = "prewarm"
    /\ call.file = UndecodableFile
    /\ call.loading = NoExc
    /\ ret.status = "return"
    /\ proc.userdata.mcp_servers = JList(<<>>)
    /\ proc.userdata.vad = SileroVAD

(***************************************************************************)
(* configure_logging (logging.py lines 97-225).  A handler keeps what it   *)
(* was configured with; a logger its level (DEBUG 10, INFO 20, WARNING 30, *)
(* ERROR 40, NOTSET 0), its handlers in order and its propagate flag.      *)
(***************************************************************************)
\* The level argument: an int or the name of a level.
IntLevel(n) == [t |-> "int", s |-> "", n |-> n]
StrLevel(name) == [t |-> "str", s |-> name, n |-> 0]
\* level.upper()
Upper(text) ==
    CASE text = "debug" -> "DEBUG"
      [] text = "info" -> "INFO"
      [] text = "verbose" -> "VERBOSE"
      [] OTHER -> text
\* getattr(logging, name): 0 stands for "no such attribute"
LevelNamed(name) ==
    CASE name = "DEBUG" -> 10
      [] name = "INFO" -> 20
      [] name = "WARNING" -> 30
      [] name = "ERROR" -> 40
      [] OTHER -> 0
\* logging.getLevelName(level)
getLevelName(level) ==
    CASE level = 10 -> "DEBUG"
      [] level = 20 -> "INFO"
      [] level = 30 -> "WARNING"
      [] level = 40 -> "ERROR"
      [] OTHER -> "Level"
Max(a, b) == IF a >= b THEN a ELSE b

\* StructuredFormatter(include_correlation): its format string
StructuredFormatter(include_correlation) ==
    IF include_correlation
    THEN "%(asctime)s [%(levelname)s] [%(correlation_id)s] %(name)s: %(message)s"
    ELSE "%(asctime)s [%(levelname)s] %(name)s: %(message)s"
\* A handler: its class, where it writes, its level, its format, its filters.
Handler(kind, target, level, fmt, filters) ==
    [kind |-> kind, target |-> target, level |-> level, fmt |-> fmt, filters |-> filters]
\* handler.addFilter(CorrelationFilter()) when enable_correlation
CorrelationFilters(enable_correlation) ==
    IF enable_correlation THEN <<"CorrelationFilter">> ELSE <<>>

\* _configure_agent_conversation_logger()
_configure_agent_conversation_logger(lg) ==
    [lg EXCEPT !["homey_assistant.agent.conversation"] =
        [level |-> 20,
         handlers |-> Append(@.handlers,
                        Handler("StreamHandler", "sys.stdout", 20,
                                "%(asctime)s [CONVERSATION] %(message)s", <<>>)),
         propagate |-> FALSE]]

\* _configure_specific_loggers(level, separate_agent_logs)
_configure_specific_loggers(lg, level, separate_agent_logs) ==
    LET levelled ==
            [n \in LoggerNames |->
                IF n = "livekit.agents" THEN [lg[n] EXCEPT !.level = Max(level, 20)]
                ELSE IF n \in {"mcp", "homey_assistant", "homey_assistant.config",
                               "homey_assistant.agent", "homey_assistant.utils"}
                THEN [lg[n] EXCEPT !.level = level]
                ELSE lg[n]]
    IN IF separate_agent_logs THEN _configure_agent_conversation_logger(levelled) ELSE levelled

\* The arguments of configure_logging; max_bytes and backup_count at their
\* defaults.
LoggingArgs(level, log_file, enable_correlation, separate_agent_logs) ==
    [level |-> level, log_file |-> log_file, enable_correlation |-> enable_correlation,
     separate_agent_logs |-> separate_agent_logs]

\* Lines 120-171 of configure_logging, the level being an int by now;
\* `opens`: the log directory can be made and the log file opened.
configure_handlers(lg, level, a, opens) ==
    LET console == Handler("StreamHandler", "sys.stdout", level,
                           StructuredFormatter(a.enable_correlation),
                           CorrelationFilters(a.enable_correlation))
        file == Handler("RotatingFileHandler", a.log_file.s, level,
                        StructuredFormatter(a.enable_correlation),
                        CorrelationFilters(a.enable_correlation))
        rooted == [lg EXCEPT !["root"] = [@ EXCEPT !.handlers = <<console>>, !.level = level]]
        filed == [rooted EXCEPT !["root"].handlers = Append(@, file)]
        records ==
            <<LogRecord("info", <<"Logging configuration completed">>),
              LogRecord("debug", <<"Log level set to: ", getLevelName(level)>>)>>
            \o (IF Truthy(a.log_file)
                THEN <<LogRecord("debug", <<"File logging enabled: ", a.log_file.s>>)>> ELSE <<>>)
            \o (IF a.enable_correlation
                THEN <<LogRecord("debug", <<"Correlation ID tracking enabled">>)>> ELSE <<>>)
    IN
    IF Truthy(a.log_file) /\ ~opens
    THEN [loggers |-> rooted, exc |-> [type |-> "OSError", msg |-> <<"Permission denied">>],
          log |-> <<>>]
    ELSE [loggers |-> _configure_specific_loggers(
                        IF Truthy(a.log_file) THEN filed ELSE rooted, level, a.separate_agent_logs),
          exc |-> NoExc, log |-> records]

\* configure_logging(level, log_file, enable_correlation, separate_agent_logs)
configure_logging(lg, a, opens) ==
    IF a.level.t = "str" /\ LevelNamed(Upper(a.level.s)) = 0
    THEN [loggers |-> lg,
          exc |-> AttributeError(<<"module 'logging' has no attribute '", Upper(a.level.s), "'">>),
          log |-> <<>>]
    ELSE configure_handlers(lg,
            IF a.level.t = "str" THEN LevelNamed(Upper(a.level.s)) ELSE a.level.n, a, opens)

\* The logger a logger hands its records on to.
Parent(name) ==
    CASE name = "homey_assistant.agent.conversation" -> "homey_assistant.agent"
      [] name = "homey_assistant.utils.logging" -> "homey_assistant.utils"
      [] name \in {"homey_assistant.config", "homey_assistant.agent", "homey_assistant.utils"}
            -> "homey_assistant"
      [] OTHER -> "root"
\* Logger.getEffectiveLevel: the first level set on the way to the root
RECURSIVE getEffectiveLevel(_, _)
getEffectiveLevel(lg, name) ==
    IF lg[name].level # 0 \/ name = "root" THEN lg[name].level
    ELSE getEffectiveLevel(lg, Parent(name))
\* Logger.callHandlers: the handlers that emit a record of level `levelno`
\* logged on logger `name`, in order
RECURSIVE callHandlers(_, _, _)
callHandlers(lg, name, levelno) ==
    SelectSeq(lg[name].handlers, LAMBDA h : levelno >= h.level)
    \o (IF name = "root" \/ ~lg[name].propagate THEN <<>>
        ELSE callHandlers(lg, Parent(name), levelno))
\* logger.log(levelno, msg) on logger `name`: the lines written, each with
\* its handler.
LogLines(lg, name, levelno) ==
    IF levelno >= getEffectiveLevel(lg, name) THEN callHandlers(lg, name, levelno) ELSE <<>>

(***************************************************************************)
(* The logging configuration applied, repeatedly, and the loggers used.    *)
(***************************************************************************)
\* The arguments configure_logging is called with: the default level, a
\* level by name, a name logging does not know; with and without a log file.
LoggingArgSets ==
    {LoggingArgs(level, log_file, enable_correlation, separate_agent_logs) :
        level \in {IntLevel(20), StrLevel("debug"), StrLevel("verbose")},
        log_file \in {JNull, JStr("logs/agent.log")},
        enable_correlation \in BOOLEAN,
        separate_agent_logs \in BOOLEAN}

LoggingCall(op, a, opens) ==
    [op |-> op, name |-> "", cfg |-> a, file |-> AbsentFile, vanished |-> FALSE,
     opens |-> opens]

InitLogging ==
    /\ env = NoEnv
    /\ loader = MCPConfigLoader(JNull)
    /\ fs = [p \in Paths |-> AbsentFile]
    /\ call = NoCall
    /\ ret = NoRet
    /\ log = <<>>
    /\ ctor = <<>>
    /\ proc = NoProc
    /\ job = NoJob
    /\ NoObjects

\* configure_logging(...) is called; the log file can be opened or not.
ConfigureLogging ==
    /\ Len(loggers["homey_assistant.agent.conversation"].handlers) < MaxHandlers
    /\ \E a \in LoggingArgSets, opens \in BOOLEAN :
        LET done == configure_logging(loggers, a, opens) IN
        /\ (~opens) => Truthy(a.log_file)
        /\ loggers' = done.loggers
        /\ call' = LoggingCall("configure_logging", a, opens)
        /\ ret' = IF done.exc = NoExc
                  THEN [status |-> "return", value |-> <<JNull>>, exc |-> NoExc]
                  ELSE [status |-> "raise", value |-> <<>>, exc |-> done.exc]
        /\ log' = done.log
    /\ UNCHANGED <<fs, loader, ctor, env, proc, job, heap, managers, context>>

\* A module logs one record: `value` holds the handlers that wrote a line.
LogCall ==
    /\ \E name \in {"homey_assistant.utils.logging", "homey_assistant.agent.conversation"},
          levelno \in {10, 20, 40} :
        /\ call' = LoggingCall("log", [name |-> name, levelno |-> levelno], TRUE)
        /\ ret' = [status |-> "return", value |-> LogLines(loggers, name, levelno),
                   exc |-> NoExc]
        /\ log' = <<>>
    /\ UNCHANGED <<fs, loader, ctor, env, proc, job, utilVars>>

NextLogging == ConfigureLogging \/ LogCall
SpecLogging == InitLogging /\ [][NextLogging]_vars

(***************************************************************************)
(* Claims on the logging configuration.                                    *)
(***************************************************************************)
\* The handlers of a logger, in number and kind.
HandlersOf(lg, name) == lg[name].handlers
\* The step is a call of configure_logging that returns, right after a call
\* with the same arguments that returned.
RepeatedConfigure ==
    /\ call.op = "configure_logging"
    /\ ret.status = "return"
    /\ call'.op = "configure_logging"
    /\ ret'.status = "return"
    /\ call'.cfg = call.cfg

\* C28: configure_logging is idempotent on the handler configuration:
\* calling it again with the same arguments leaves the root logger and the
\* "homey_assistant.agent.conversation" logger with the same handlers in
\* number and kind, so that one log call still writes one line per
\* configured output.
C28_ConfigureIdempotent ==
    [][RepeatedConfigure =>
        /\ HandlersOf(loggers', "root") = HandlersOf(loggers, "root")
        /\ HandlersOf(loggers', "homey_assistant.agent.conversation")
            = HandlersOf(loggers, "homey_assistant.agent.conversation")
        /\ \A name \in {"homey_assistant.utils.logging", "homey_assistant.agent.conversation"} :
            LogLines(loggers', name, 20) = LogLines(loggers, name, 20)]_vars

====
